---- MODULE Spec2Model ----
(***************************************************************************)
(* The leveraged account of domain/account.py, the sizing function of      *)
(* domain/calculations.py, the environment that feeds the account one      *)
(* trading day at a time, and the two drivers of                           *)
(* application/simulation_service.py: the leveraged simulation and the     *)
(* buy-and-hold benchmark; then the account class of streamlit_app.py the  *)
(* domain class was extracted from, run beside it, and two runs of the     *)
(* driver side by side.                                                    *)
(*                                                                         *)
(* Numbers.  Python floats are modelled as exact rationals: every float    *)
(* operation of the source (+, -, *, /, <=) is the exact operation on      *)
(* rationals, so IEEE rounding is abstracted away and nothing else is.     *)
(* The daily cost rate 0.0533/365 has denominator 3 650 000 and a few     *)
(* ticks already leave the 32-bit integers of TLC, so a rational is a sign *)
(* and two arbitrary-precision naturals (little-endian sequences of limbs  *)
(* below Base), reduced by the small primes the values of the model are    *)
(* made of and compared by cross-multiplication (REq, RLt, RLeq).          *)
(***************************************************************************)
EXTENDS Integers, Sequences, FiniteSets, TLC

----------------------------------------------------------------------------
(* Arbitrary-precision naturals: <<>> is 0, no leading (last) zero limb.   *)

Base == 10^4

RECURSIVE NatOf(_)
NatOf(n) == IF n = 0 THEN <<>> ELSE <<n % Base>> \o NatOf(n \div Base)

RECURSIVE NStrip(_)
NStrip(a) ==
    IF a = <<>> THEN <<>>
    ELSE IF a[Len(a)] = 0 THEN NStrip(SubSeq(a, 1, Len(a) - 1)) ELSE a

RECURSIVE NAddC(_, _, _)
NAddC(a, b, c) ==
    IF a = <<>> /\ b = <<>> THEN (IF c = 0 THEN <<>> ELSE <<c>>)
    ELSE IF b = <<>> /\ c = 0 THEN a
    ELSE IF a = <<>> /\ c = 0 THEN b
    ELSE LET x == (IF a = <<>> THEN 0 ELSE a[1]) + (IF b = <<>> THEN 0 ELSE b[1]) + c
         IN  <<x % Base>> \o NAddC(IF a = <<>> THEN a ELSE Tail(a),
                                   IF b = <<>> THEN b ELSE Tail(b),
                                   x \div Base)

NAdd(a, b) == NAddC(a, b, 0)

(* a - b - c for a >= b + c; the result may carry leading zeros. *)
RECURSIVE NSubB(_, _, _)
NSubB(a, b, c) ==
    IF b = <<>> /\ c = 0 THEN a
    ELSE LET x == a[1] - (IF b = <<>> THEN 0 ELSE b[1]) - c
         IN  <<IF x < 0 THEN x + Base ELSE x>>
               \o NSubB(Tail(a), IF b = <<>> THEN b ELSE Tail(b), IF x < 0 THEN 1 ELSE 0)

NSub(a, b) == NStrip(NSubB(a, b, 0))

(* -1, 0, 1 as a < b, a = b, a > b *)
RECURSIVE NCmpAt(_, _, _)
NCmpAt(a, b, i) ==
    IF i = 0 THEN 0
    ELSE IF a[i] < b[i] THEN -1
    ELSE IF a[i] > b[i] THEN 1
    ELSE NCmpAt(a, b, i - 1)

NCmp(a, b) ==
    IF Len(a) < Len(b) THEN -1
    ELSE IF Len(a) > Len(b) THEN 1
    ELSE NCmpAt(a, b, Len(a))

(* a * k + c for one limb k *)
RECURSIVE NMulSmall(_, _, _)
NMulSmall(a, k, c) ==
    IF a = <<>> THEN (IF c = 0 THEN <<>> ELSE <<c>>)
    ELSE LET x == a[1] * k + c
         IN  <<x % Base>> \o NMulSmall(Tail(a), k, x \div Base)

RECURSIVE NMul(_, _)
NMul(a, b) ==
    IF a = <<>> \/ b = <<>> THEN <<>>
    ELSE IF Len(b) = 1 THEN NMulSmall(a, b[1], 0)
    ELSE NAdd(NMulSmall(a, b[1], 0), <<0>> \o NMul(a, Tail(b)))

(* a mod k and a div k for one limb k, from the most significant limb *)
RECURSIVE NModSmallAt(_, _, _, _)
NModSmallAt(a, k, i, r) ==
    IF i = 0 THEN r ELSE NModSmallAt(a, k, i - 1, (r * Base + a[i]) % k)

NModSmall(a, k) == NModSmallAt(a, k, Len(a), 0)

RECURSIVE NDivSmallAt(_, _, _, _)
NDivSmallAt(a, k, i, r) ==
    IF i = 0 THEN <<>>
    ELSE LET x == r * Base + a[i]
         IN  NDivSmallAt(a, k, i - 1, x % k) \o <<x \div k>>

NDivSmall(a, k) == NStrip(NDivSmallAt(a, k, Len(a), 0))

----------------------------------------------------------------------------
(* Rationals [s, n, d]: sign s in {-1, 0, 1}, numerator n and denominator  *)
(* d > 0 as naturals.  Every denominator the program can produce is a      *)
(* product of the primes of the prices, of 2 * max_drop + 5 and of         *)
(* 3 650 000, so cancelling the primes of SmallPrimes leaves lowest terms. *)

SmallPrimes == <<2, 3, 5, 7, 13, 29, 73>>

RECURSIVE Cancel(_, _, _)
Cancel(n, d, i) ==
    IF i > Len(SmallPrimes) \/ d = <<1>> THEN <<n, d>>
    ELSE LET p == SmallPrimes[i]
         IN  IF NModSmall(d, p) = 0 /\ NModSmall(n, p) = 0
             THEN Cancel(NDivSmall(n, p), NDivSmall(d, p), i)
             ELSE Cancel(n, d, i + 1)

MkRat(s, n, d) ==
    IF n = <<>> \/ s = 0 THEN [s |-> 0, n |-> <<>>, d |-> <<1>>]
    ELSE LET c == Cancel(n, d, 1) IN [s |-> s, n |-> c[1], d |-> c[2]]

(* the rational p / q of two machine integers, q > 0 *)
Rat(p, q) == MkRat(IF p < 0 THEN -1 ELSE IF p = 0 THEN 0 ELSE 1,
                   NatOf(IF p < 0 THEN -p ELSE p), NatOf(q))

RInt(p)  == Rat(p, 1)
RZero    == RInt(0)

RNeg(a) == [s |-> -a.s, n |-> a.n, d |-> a.d]

RAdd(a, b) ==
    IF a.s = 0 THEN b
    ELSE IF b.s = 0 THEN a
    ELSE LET same == a.d = b.d
             x == IF same THEN a.n ELSE NMul(a.n, b.d)
             y == IF same THEN b.n ELSE NMul(b.n, a.d)
             d == IF same THEN a.d ELSE NMul(a.d, b.d)
         IN  IF a.s = b.s THEN MkRat(a.s, NAdd(x, y), d)
             ELSE LET c == NCmp(x, y)
                  IN  IF c = 0 THEN RZero
                      ELSE IF c > 0 THEN MkRat(a.s, NSub(x, y), d)
                      ELSE MkRat(b.s, NSub(y, x), d)

RSub(a, b) == RAdd(a, RNeg(b))

RMul(a, b) ==
    IF a.s = 0 \/ b.s = 0 THEN RZero
    ELSE MkRat(a.s * b.s, NMul(a.n, b.n), NMul(a.d, b.d))

(* what a float division by zero leaves instead of a value: the exception, *)
(* which is no number and compares equal to none                           *)
ZeroDivisionError == [s |-> 2, n |-> <<>>, d |-> <<>>]

(* a / b *)
RDiv(a, b) ==
    IF b.s = 0 THEN ZeroDivisionError
    ELSE IF a.s = 0 THEN RZero
    ELSE MkRat(a.s * b.s, NMul(a.n, b.d), NMul(a.d, b.n))

RSign(a) == a.s

(* -1, 0, 1 as a < b, a = b, a > b *)
RCmp(a, b) ==
    IF a.s # b.s THEN (IF a.s < b.s THEN -1 ELSE 1)
    ELSE IF a.s = 0 THEN 0
    ELSE a.s * (IF a.d = b.d THEN NCmp(a.n, b.n)
                ELSE NCmp(NMul(a.n, b.d), NMul(b.n, a.d)))

RLeq(a, b) == RCmp(a, b) <= 0
RLt(a, b)  == RCmp(a, b) < 0
REq(a, b)  == RCmp(a, b) = 0

----------------------------------------------------------------------------
(* Domain constants (domain/constants.py; the values are those of the      *)
(* legacy module, pinned by tests/test_calculations.py).                   *)

COST_OF_CARRY_DECIMAL   == Rat(533, 10000)
MARGIN_REQ_DECIMAL      == Rat(5, 100)
MARGIN_CLOSEOUT_DECIMAL == Rat(50, 100)

(* Optional[...] fields: None is 0, which is no date, month or quarter. *)
None == 0

(* datetime.date as the integer yyyymmdd; .month is read off it *)
Month(current_date) == (current_date \div 100) % 100
Year(current_date)  == current_date \div 10000

----------------------------------------------------------------------------
(* domain/calculations.py *)

(* calculate_target_units sizing for the market drop alone, without the   *)
(* broker's margin-closeout buffer                                         *)
calculate_target_units_NoBrokerBuffer(equity_, current_price, max_market_drop_percent) ==
    LET md_decimal == RDiv(max_market_drop_percent, RInt(100))
        total_buffer_decimal == md_decimal
        total_cost_and_buffer_per_unit == RMul(current_price, total_buffer_decimal)
    IN  IF RLeq(total_buffer_decimal, RZero) THEN RZero
        ELSE IF RLeq(total_cost_and_buffer_per_unit, RZero) THEN RZero
        ELSE RDiv(equity_, total_cost_and_buffer_per_unit)

(* calculate_target_units without the guards of lines 14-18 *)
calculate_target_units_Unguarded(equity_, current_price, max_market_drop_percent) ==
    LET md_decimal == RDiv(max_market_drop_percent, RInt(100))
        broker_buffer_decimal == RMul(MARGIN_REQ_DECIMAL, MARGIN_CLOSEOUT_DECIMAL)
        cost_buffer_decimal == RZero
        total_buffer_decimal ==
            RAdd(RAdd(md_decimal, broker_buffer_decimal), cost_buffer_decimal)
        total_cost_and_buffer_per_unit == RMul(current_price, total_buffer_decimal)
    IN  RDiv(equity_, total_cost_and_buffer_per_unit)

(* calculate_target_units multiplying by the buffer instead of dividing *)
calculate_target_units_TimesBuffer(equity_, current_price, max_market_drop_percent) ==
    LET md_decimal == RDiv(max_market_drop_percent, RInt(100))
        broker_buffer_decimal == RMul(MARGIN_REQ_DECIMAL, MARGIN_CLOSEOUT_DECIMAL)
        cost_buffer_decimal == RZero
        total_buffer_decimal ==
            RAdd(RAdd(md_decimal, broker_buffer_decimal), cost_buffer_decimal)
        total_cost_and_buffer_per_unit == RMul(current_price, total_buffer_decimal)
    IN  IF RLeq(total_buffer_decimal, RZero) THEN RZero
        ELSE IF RLeq(total_cost_and_buffer_per_unit, RZero) THEN RZero
        ELSE RMul(RDiv(equity_, current_price), total_buffer_decimal)

calculate_target_units(equity_, current_price, max_market_drop_percent) ==
    LET md_decimal == RDiv(max_market_drop_percent, RInt(100))
        broker_buffer_decimal == RMul(MARGIN_REQ_DECIMAL, MARGIN_CLOSEOUT_DECIMAL)
        cost_buffer_decimal == RZero
        total_buffer_decimal ==
            RAdd(RAdd(md_decimal, broker_buffer_decimal), cost_buffer_decimal)
        total_cost_and_buffer_per_unit == RMul(current_price, total_buffer_decimal)
    IN  IF RLeq(total_buffer_decimal, RZero) THEN RZero
        ELSE IF RLeq(total_cost_and_buffer_per_unit, RZero) THEN RZero
        ELSE RDiv(equity_, total_cost_and_buffer_per_unit)

----------------------------------------------------------------------------
(* domain/account.py: LeveragedAccount.  An account is the record of its   *)
(* fields; a method maps the account it is called on to the account it     *)
(* leaves behind (with its return value, where it has one).                *)

LeveragedAccount(capital, initial_units_) ==
    [ equity             |-> capital,
      units              |-> initial_units_,
      initial_capital    |-> capital,
      cumulative_cost    |-> RZero,
      liquidated         |-> FALSE,
      liquidation_date   |-> None,
      previous_day_close |-> RZero,
      previous_month     |-> None,
      previous_quarter   |-> None ]

(* _check_liquidation with < for <= *)
_check_liquidation_Strict(self, current_date, low) ==
    LET pnl_at_low == RMul(RSub(low, self.previous_day_close), self.units)
        equity_at_low == RAdd(self.equity, pnl_at_low)
        required_margin == RMul(RMul(low, self.units), MARGIN_REQ_DECIMAL)
        liquidation_trigger == RMul(required_margin, MARGIN_CLOSEOUT_DECIMAL)
    IN  IF RLt(equity_at_low, liquidation_trigger)
        THEN [self EXCEPT !.liquidated = TRUE,
                          !.liquidation_date = current_date,
                          !.equity = liquidation_trigger]
        ELSE self

(* _check_liquidation leaving the equity marked at the low, not the trigger *)
_check_liquidation_NoClamp(self, current_date, low) ==
    LET pnl_at_low == RMul(RSub(low, self.previous_day_close), self.units)
        equity_at_low == RAdd(self.equity, pnl_at_low)
        required_margin == RMul(RMul(low, self.units), MARGIN_REQ_DECIMAL)
        liquidation_trigger == RMul(required_margin, MARGIN_CLOSEOUT_DECIMAL)
    IN  IF RLeq(equity_at_low, liquidation_trigger)
        THEN [self EXCEPT !.liquidated = TRUE,
                          !.liquidation_date = current_date,
                          !.equity = equity_at_low]
        ELSE self

(* _check_liquidation that does not stamp the date *)
_check_liquidation_NoDate(self, current_date, low) ==
    LET pnl_at_low == RMul(RSub(low, self.previous_day_close), self.units)
        equity_at_low == RAdd(self.equity, pnl_at_low)
        required_margin == RMul(RMul(low, self.units), MARGIN_REQ_DECIMAL)
        liquidation_trigger == RMul(required_margin, MARGIN_CLOSEOUT_DECIMAL)
    IN  IF RLeq(equity_at_low, liquidation_trigger)
        THEN [self EXCEPT !.liquidated = TRUE,
                          !.equity = liquidation_trigger]
        ELSE self

(* _check_liquidation comparing the equity before the day, without the    *)
(* P&L at the low, with the trigger                                        *)
_check_liquidation_IgnoresLowPnl(self, current_date, low) ==
    LET required_margin == RMul(RMul(low, self.units), MARGIN_REQ_DECIMAL)
        liquidation_trigger == RMul(required_margin, MARGIN_CLOSEOUT_DECIMAL)
    IN  IF RLeq(self.equity, liquidation_trigger)
        THEN [self EXCEPT !.liquidated = TRUE,
                          !.liquidation_date = current_date,
                          !.equity = liquidation_trigger]
        ELSE self

(* _check_liquidation clamping the equity to the required margin, without *)
(* the closeout factor                                                     *)
_check_liquidation_ClampAtMargin(self, current_date, low) ==
    LET pnl_at_low == RMul(RSub(low, self.previous_day_close), self.units)
        equity_at_low == RAdd(self.equity, pnl_at_low)
        required_margin == RMul(RMul(low, self.units), MARGIN_REQ_DECIMAL)
        liquidation_trigger == RMul(required_margin, MARGIN_CLOSEOUT_DECIMAL)
    IN  IF RLeq(equity_at_low, liquidation_trigger)
        THEN [self EXCEPT !.liquidated = TRUE,
                          !.liquidation_date = current_date,
                          !.equity = required_margin]
        ELSE self

_check_liquidation(self, current_date, low) ==
    LET pnl_at_low == RMul(RSub(low, self.previous_day_close), self.units)
        equity_at_low == RAdd(self.equity, pnl_at_low)
        required_margin == RMul(RMul(low, self.units), MARGIN_REQ_DECIMAL)
        liquidation_trigger == RMul(required_margin, MARGIN_CLOSEOUT_DECIMAL)
    IN  IF RLeq(equity_at_low, liquidation_trigger)
        THEN [self EXCEPT !.liquidated = TRUE,
                          !.liquidation_date = current_date,
                          !.equity = liquidation_trigger]
        ELSE self

(* _update_equity charging the day's cost on the previous close *)
_update_equity_CostAtPreviousClose(self, close, daily_coc) ==
    LET price_change == RSub(close, self.previous_day_close)
        market_pnl == RMul(self.units, price_change)
        position_value_at_close == RMul(self.previous_day_close, self.units)
        daily_cost == RMul(position_value_at_close, daily_coc)
    IN  [self EXCEPT !.equity = RAdd(self.equity, RSub(market_pnl, daily_cost)),
                     !.cumulative_cost = RSub(self.cumulative_cost, daily_cost)]

(* _update_equity adding the day's cost to cumulative_cost *)
_update_equity_CostSignSlip(self, close, daily_coc) ==
    LET price_change == RSub(close, self.previous_day_close)
        market_pnl == RMul(self.units, price_change)
        position_value_at_close == RMul(close, self.units)
        daily_cost == RMul(position_value_at_close, daily_coc)
    IN  [self EXCEPT !.equity = RAdd(self.equity, RSub(market_pnl, daily_cost)),
                     !.cumulative_cost = RAdd(self.cumulative_cost, daily_cost)]

(* _update_equity charging the day's cost on the equity, not the position *)
_update_equity_CostOnEquity(self, close, daily_coc) ==
    LET price_change == RSub(close, self.previous_day_close)
        market_pnl == RMul(self.units, price_change)
        daily_cost == RMul(self.equity, daily_coc)
    IN  [self EXCEPT !.equity = RAdd(self.equity, RSub(market_pnl, daily_cost)),
                     !.cumulative_cost = RSub(self.cumulative_cost, daily_cost)]

_update_equity(self, close, daily_coc) ==
    LET price_change == RSub(close, self.previous_day_close)
        market_pnl == RMul(self.units, price_change)
        position_value_at_close == RMul(close, self.units)
        daily_cost == RMul(position_value_at_close, daily_coc)
    IN  [self EXCEPT !.equity = RAdd(self.equity, RSub(market_pnl, daily_cost)),
                     !.cumulative_cost = RSub(self.cumulative_cost, daily_cost)]

(* _should_rebalance answering True for "Never" *)
_should_rebalance_NeverIsTrue(self, current_date, frequency) ==
    IF frequency = "Never" THEN [result |-> TRUE, self |-> self]
    ELSE IF frequency = "Daily" THEN [result |-> TRUE, self |-> self]
    ELSE IF frequency = "Monthly" THEN
        LET current_month == Month(current_date)
        IN  IF self.previous_month = None
            THEN [result |-> FALSE,
                  self |-> [self EXCEPT !.previous_month = current_month]]
            ELSE [result |-> current_month # self.previous_month,
                  self |-> [self EXCEPT !.previous_month = current_month]]
    ELSE IF frequency = "Quarterly" THEN
        LET current_quarter == ((Month(current_date) - 1) \div 3) + 1
        IN  IF self.previous_quarter = None
            THEN [result |-> FALSE,
                  self |-> [self EXCEPT !.previous_quarter = current_quarter]]
            ELSE [result |-> current_quarter # self.previous_quarter,
                  self |-> [self EXCEPT !.previous_quarter = current_quarter]]
    ELSE [result |-> FALSE, self |-> self]

(* _should_rebalance with the monthly comparison under "Quarterly" too *)
_should_rebalance_QuarterlyByMonth(self, current_date, frequency) ==
    IF frequency = "Never" THEN [result |-> FALSE, self |-> self]
    ELSE IF frequency = "Daily" THEN [result |-> TRUE, self |-> self]
    ELSE IF frequency = "Monthly" THEN
        LET current_month == Month(current_date)
        IN  IF self.previous_month = None
            THEN [result |-> FALSE,
                  self |-> [self EXCEPT !.previous_month = current_month]]
            ELSE [result |-> current_month # self.previous_month,
                  self |-> [self EXCEPT !.previous_month = current_month]]
    ELSE IF frequency = "Quarterly" THEN
        LET current_quarter == Month(current_date)
        IN  IF self.previous_quarter = None
            THEN [result |-> FALSE,
                  self |-> [self EXCEPT !.previous_quarter = current_quarter]]
            ELSE [result |-> current_quarter # self.previous_quarter,
                  self |-> [self EXCEPT !.previous_quarter = current_quarter]]
    ELSE [result |-> FALSE, self |-> self]

(* _should_rebalance not storing the period of the first day it sees *)
_should_rebalance_NoSeed(self, current_date, frequency) ==
    IF frequency = "Never" THEN [result |-> FALSE, self |-> self]
    ELSE IF frequency = "Daily" THEN [result |-> TRUE, self |-> self]
    ELSE IF frequency = "Monthly" THEN
        LET current_month == Month(current_date)
        IN  IF self.previous_month = None
            THEN [result |-> FALSE, self |-> self]
            ELSE [result |-> current_month # self.previous_month,
                  self |-> [self EXCEPT !.previous_month = current_month]]
    ELSE IF frequency = "Quarterly" THEN
        LET current_quarter == ((Month(current_date) - 1) \div 3) + 1
        IN  IF self.previous_quarter = None
            THEN [result |-> FALSE, self |-> self]
            ELSE [result |-> current_quarter # self.previous_quarter,
                  self |-> [self EXCEPT !.previous_quarter = current_quarter]]
    ELSE [result |-> FALSE, self |-> self]

(* _should_rebalance answering True for a frequency it does not know *)
_should_rebalance_DefaultsToTrue(self, current_date, frequency) ==
    IF frequency = "Never" THEN [result |-> FALSE, self |-> self]
    ELSE IF frequency = "Daily" THEN [result |-> TRUE, self |-> self]
    ELSE IF frequency = "Monthly" THEN
        LET current_month == Month(current_date)
        IN  IF self.previous_month = None
            THEN [result |-> FALSE,
                  self |-> [self EXCEPT !.previous_month = current_month]]
            ELSE [result |-> current_month # self.previous_month,
                  self |-> [self EXCEPT !.previous_month = current_month]]
    ELSE IF frequency = "Quarterly" THEN
        LET current_quarter == ((Month(current_date) - 1) \div 3) + 1
        IN  IF self.previous_quarter = None
            THEN [result |-> FALSE,
                  self |-> [self EXCEPT !.previous_quarter = current_quarter]]
            ELSE [result |-> current_quarter # self.previous_quarter,
                  self |-> [self EXCEPT !.previous_quarter = current_quarter]]
    ELSE [result |-> TRUE, self |-> self]

(* returns [result, self]: the boolean and the account with its trackers *)
_should_rebalance(self, current_date, frequency) ==
    IF frequency = "Never" THEN [result |-> FALSE, self |-> self]
    ELSE IF frequency = "Daily" THEN [result |-> TRUE, self |-> self]
    ELSE IF frequency = "Monthly" THEN
        LET current_month == Month(current_date)
        IN  IF self.previous_month = None
            THEN [result |-> FALSE,
                  self |-> [self EXCEPT !.previous_month = current_month]]
            ELSE [result |-> current_month # self.previous_month,
                  self |-> [self EXCEPT !.previous_month = current_month]]
    ELSE IF frequency = "Quarterly" THEN
        LET current_quarter == ((Month(current_date) - 1) \div 3) + 1
        IN  IF self.previous_quarter = None
            THEN [result |-> FALSE,
                  self |-> [self EXCEPT !.previous_quarter = current_quarter]]
            ELSE [result |-> current_quarter # self.previous_quarter,
                  self |-> [self EXCEPT !.previous_quarter = current_quarter]]
    ELSE [result |-> FALSE, self |-> self]

(* _rebalance sizing at the previous close instead of the day's close *)
_rebalance_AtPreviousClose(self, close_price, max_drop_percent) ==
    LET target_units == calculate_target_units(self.equity, self.previous_day_close,
                                               max_drop_percent)
    IN  [self EXCEPT !.units = target_units]

(* _rebalance that buys up to the target and never sells *)
_rebalance_NeverSells(self, close_price, max_drop_percent) ==
    LET target_units == calculate_target_units(self.equity, close_price, max_drop_percent)
    IN  IF RLt(target_units, self.units) THEN self
        ELSE [self EXCEPT !.units = target_units]

_rebalance(self, close_price, max_drop_percent) ==
    LET target_units == calculate_target_units(self.equity, close_price, max_drop_percent)
    IN  [self EXCEPT !.units = target_units]

(* apply_daily_tick without the guard of lines 21-22 *)
apply_daily_tick_NoShortCircuit(self, current_date, low, close, daily_coc, rebalance_frequency, max_drop_percent) ==
    LET checked == _check_liquidation(self, current_date, low)
    IN  IF checked.liquidated THEN [self |-> checked, rebalanced |-> FALSE]
        ELSE LET updated == _update_equity(checked, close, daily_coc)
                 should == _should_rebalance(updated, current_date, rebalance_frequency)
                 sized == IF should.result
                          THEN _rebalance(should.self, close, max_drop_percent)
                          ELSE should.self
             IN  [self |-> [sized EXCEPT !.previous_day_close = close],
                  rebalanced |-> should.result]

(* apply_daily_tick without the carry-forward of line 33 *)
apply_daily_tick_NoCarry(self, current_date, low, close, daily_coc, rebalance_frequency, max_drop_percent) ==
    IF self.liquidated THEN [self |-> self, rebalanced |-> FALSE]
    ELSE LET checked == _check_liquidation(self, current_date, low)
         IN  IF checked.liquidated THEN [self |-> checked, rebalanced |-> FALSE]
             ELSE LET updated == _update_equity(checked, close, daily_coc)
                      should == _should_rebalance(updated, current_date, rebalance_frequency)
                      sized == IF should.result
                               THEN _rebalance(should.self, close, max_drop_percent)
                               ELSE should.self
                  IN  [self |-> sized, rebalanced |-> should.result]

(* returns [self, rebalanced]: the account after the call and whether the  *)
(* call reached _rebalance                                                 *)
apply_daily_tick(self, current_date, low, close, daily_coc, rebalance_frequency, max_drop_percent) ==
    IF self.liquidated THEN [self |-> self, rebalanced |-> FALSE]
    ELSE LET checked == _check_liquidation(self, current_date, low)
         IN  IF checked.liquidated THEN [self |-> checked, rebalanced |-> FALSE]
             ELSE LET updated == _update_equity(checked, close, daily_coc)
                      should == _should_rebalance(updated, current_date, rebalance_frequency)
                      sized == IF should.result
                               THEN _rebalance(should.self, close, max_drop_percent)
                               ELSE should.self
                  IN  [self |-> [sized EXCEPT !.previous_day_close = close],
                       rebalanced |-> should.result]

----------------------------------------------------------------------------
(* The environment: one account, seeded as the driver seeds it             *)
(* (application/simulation_service.py, lines 18-21), and fed one day at a  *)
(* time in date order, the configuration held fixed over the run.  Beside  *)
(* the account's fields the state keeps what the driver keeps around a     *)
(* call: the entry price, the initial units, units_before (line 32), the   *)
(* arguments of the last call and whether it reached _rebalance.           *)

MaxTicks == 3

Capitals        == {RInt(10000)}
EntryPrices     == {RInt(1000)}
Lows            == {RInt(700), RInt(1000)}
Closes          == {RInt(700), RInt(1000), RInt(1050)}
Dates           == {20200115, 20200120, 20200203, 20200401, 20210115}
Frequencies     == {"Never", "Daily", "Monthly", "Quarterly", "Weekly"}
MaxDropPercents == {RInt(10), RInt(30)}
(* the driver's rate (simulation_service.py, line 18), and two a caller of  *)
(* the account may pass: 2.5% and 50% a day                                *)
DriverDailyCoc  == RDiv(COST_OF_CARRY_DECIMAL, RInt(365))
DailyCocs       == {DriverDailyCoc, Rat(1, 40), Rat(1, 2)}

(* the unit counts an account starts with: the sizing function's at the    *)
(* entry price (streamlit_app.py, line 505), and a caller's own            *)
InitialUnits(capital, entry_price, max_drop_percent) ==
    {calculate_target_units(capital, entry_price, max_drop_percent), RInt(400)}

VARIABLES equity, units, initial_capital, cumulative_cost, liquidated,
          liquidation_date, previous_day_close, previous_month, previous_quarter,
          params, entry_price, initial_units, units_before, call, rebalanced,
          ticks

(* the calls of calculate_target_units made so far by a caller of the      *)
(* function alone: their arguments and what each returned                  *)
VARIABLES sizing_calls

(* SimulationService.run_leveraged_simulation: the price series it is      *)
(* given, the lists it appends to (lines 23-29), the summary it returns    *)
(* and where it stands: in the loop, past the break, or returned           *)
VARIABLES historical_data, dates, equity_values, unit_values, cost_values,
          action_values, trigger_values, unit_change_values, summary, pc

(* what run_benchmark_simulation has returned, when it has: the method of  *)
(* SimulationService and the function of the same name in streamlit_app.py *)
VARIABLES benchmark_result, legacy_benchmark_result

benchmark_vars == <<benchmark_result, legacy_benchmark_result>>

(* no benchmark has run *)
NoBenchmark ==
    /\ benchmark_result = {}
    /\ legacy_benchmark_result = {}

(* the account of the application the domain class was extracted from      *)
(* (streamlit_app.py, lines 107-213), where one is run beside the domain   *)
(* account: empty, or the one account object                               *)
VARIABLE legacy_account

(* no legacy account is constructed *)
NoLegacyAccount == legacy_account = {}

(* the runs in progress side by side, each with an account of its own      *)
(* (application/simulation_service.py, line 20)                            *)
VARIABLE runs

(* no second run *)
NoRuns == runs = <<>>

driver_vars == <<historical_data, dates, equity_values, unit_values, cost_values,
                 action_values, trigger_values, unit_change_values, summary, pc>>

(* no driver runs: the account is called by a caller of its own *)
NoDriver ==
    /\ historical_data = <<>>
    /\ dates = <<>>
    /\ equity_values = <<>>
    /\ unit_values = <<>>
    /\ cost_values = <<>>
    /\ action_values = <<>>
    /\ trigger_values = <<>>
    /\ unit_change_values = <<>>
    /\ summary = None
    /\ pc = "none"

account_vars == <<equity, units, initial_capital, cumulative_cost, liquidated,
                  liquidation_date, previous_day_close, previous_month,
                  previous_quarter>>

vars == <<equity, units, initial_capital, cumulative_cost, liquidated,
          liquidation_date, previous_day_close, previous_month, previous_quarter,
          params, entry_price, initial_units, units_before, call, rebalanced,
          ticks, sizing_calls, historical_data, dates, equity_values,
          unit_values, cost_values, action_values, trigger_values,
          unit_change_values, summary, pc, benchmark_result,
          legacy_benchmark_result, legacy_account, runs>>

(* the account object the variables hold *)
Self ==
    [ equity             |-> equity,
      units              |-> units,
      initial_capital    |-> initial_capital,
      cumulative_cost    |-> cumulative_cost,
      liquidated         |-> liquidated,
      liquidation_date   |-> liquidation_date,
      previous_day_close |-> previous_day_close,
      previous_month     |-> previous_month,
      previous_quarter   |-> previous_quarter ]

NoCall == [date |-> None, low |-> RZero, close |-> RZero]

Init ==
    \E capital \in Capitals, entry \in EntryPrices,
       daily_coc \in DailyCocs, rebalance_frequency \in Frequencies,
       max_drop_percent \in MaxDropPercents :
      \E units0 \in InitialUnits(capital, entry, max_drop_percent) :
        LET account == LeveragedAccount(capital, units0)
        IN  /\ equity = account.equity
            /\ units = account.units
            /\ initial_capital = account.initial_capital
            /\ cumulative_cost = account.cumulative_cost
            /\ liquidated = account.liquidated
            /\ liquidation_date = account.liquidation_date
            /\ previous_day_close = entry
            /\ previous_month = account.previous_month
            /\ previous_quarter = account.previous_quarter
            /\ params = [daily_coc |-> daily_coc,
                         rebalance_frequency |-> rebalance_frequency,
                         max_drop_percent |-> max_drop_percent]
            /\ entry_price = entry
            /\ initial_units = units0
            /\ units_before = units0
            /\ call = NoCall
            /\ rebalanced = FALSE
            /\ ticks = 0
            /\ sizing_calls = {}
            /\ NoDriver
            /\ NoBenchmark
            /\ NoLegacyAccount
            /\ NoRuns

(* one call of account.apply_daily_tick, on the next day of the series *)
Tick(current_date, low, close) ==
    /\ ticks < MaxTicks
    /\ current_date > call.date
    /\ RLeq(low, close)
    /\ \E after \in {apply_daily_tick(Self, current_date, low, close,
                                     params.daily_coc, params.rebalance_frequency,
                                     params.max_drop_percent)} :
           /\ equity' = after.self.equity
           /\ units' = after.self.units
           /\ initial_capital' = after.self.initial_capital
           /\ cumulative_cost' = after.self.cumulative_cost
           /\ liquidated' = after.self.liquidated
           /\ liquidation_date' = after.self.liquidation_date
           /\ previous_day_close' = after.self.previous_day_close
           /\ previous_month' = after.self.previous_month
           /\ previous_quarter' = after.self.previous_quarter
           /\ rebalanced' = after.rebalanced
    /\ units_before' = units
    /\ call' = [date |-> current_date, low |-> low, close |-> close]
    /\ ticks' = ticks + 1
    /\ UNCHANGED <<params, entry_price, initial_units>>
    /\ UNCHANGED sizing_calls
    /\ UNCHANGED driver_vars
    /\ UNCHANGED benchmark_vars
    /\ UNCHANGED <<legacy_account, runs>>

Next == \E current_date \in Dates, low \in Lows, close \in Closes :
            Tick(current_date, low, close)

Spec == Init /\ [][Next]_vars

----------------------------------------------------------------------------
(* calculate_target_units on its own (domain/calculations.py): a caller    *)
(* that holds no account and calls the function with arguments of its      *)
(* choice, the valid ones and those the guards of lines 14-18 are for.     *)

MaxCalls == 2

SizingEquities == {RInt(0), RInt(5000), RInt(10000)}
SizingPrices   == {RInt(0), RInt(500), RInt(1000)}
SizingMaxDrops == {RInt(-10), Rat(-5, 2), RInt(10), RInt(30), RInt(70)}

(* an account that is never called: the function reads none of it *)
NoAccount ==
    /\ equity = RZero
    /\ units = RZero
    /\ initial_capital = RZero
    /\ cumulative_cost = RZero
    /\ liquidated = FALSE
    /\ liquidation_date = None
    /\ previous_day_close = RZero
    /\ previous_month = None
    /\ previous_quarter = None
    /\ params = None
    /\ entry_price = RZero
    /\ initial_units = RZero
    /\ units_before = RZero
    /\ call = NoCall
    /\ rebalanced = FALSE
    /\ ticks = 0

SizingInit ==
    /\ NoAccount
    /\ NoDriver
    /\ NoBenchmark
    /\ NoLegacyAccount
    /\ NoRuns
    /\ sizing_calls = {}

(* one call of calculate_target_units *)
Size(equity_, current_price, max_market_drop_percent) ==
    /\ Cardinality(sizing_calls) < MaxCalls
    /\ sizing_calls' = sizing_calls \cup
          {[equity |-> equity_,
            current_price |-> current_price,
            max_market_drop_percent |-> max_market_drop_percent,
            result |-> calculate_target_units(equity_, current_price,
                                              max_market_drop_percent)]}
    /\ sizing_calls' # sizing_calls
    /\ UNCHANGED <<account_vars, params, entry_price, initial_units, units_before,
                   call, rebalanced, ticks>>
    /\ UNCHANGED driver_vars
    /\ UNCHANGED benchmark_vars
    /\ UNCHANGED <<legacy_account, runs>>

SizingNext ==
    \E equity_ \in SizingEquities, current_price \in SizingPrices,
       max_market_drop_percent \in SizingMaxDrops :
        Size(equity_, current_price, max_market_drop_percent)

SizingSpec == SizingInit /\ [][SizingNext]_vars

----------------------------------------------------------------------------
(* application/simulation_service.py: run_leveraged_simulation.  The       *)
(* DataFrame is the sequence of its rows, each with its index (the date)   *)
(* and the two columns the loop reads; the rate is the driver's own.       *)

MaxDays == 3

DriverMaxDropPercents == {RInt(30), RInt(70)}

(* the trading days of the series, in calendar order: each opens a new     *)
(* month, the third and the fourth a new quarter                           *)
TradingDays == <<20200115, 20200203, 20200401, 20210115>>

(* the rows the DataFrame may hold for a date *)
Rows(date) ==
    {row \in [date : {date}, Low : Lows, Close : Closes] : RLeq(row.Low, row.Close)}

(* the series over the first n trading days or fewer, from the i-th on *)
RECURSIVE SeriesFrom(_, _)
SeriesFrom(i, n) ==
    {<<>>} \cup
    (IF i > n THEN {}
     ELSE UNION {{<<row>> \o rest : rest \in SeriesFrom(i + 1, n)} :
                    row \in Rows(TradingDays[i])})

PriceSeries == SeriesFrom(1, MaxDays)

(* RebalanceAction reporting the unit change as it is on a Hold *)
RebalanceAction_KeepsNoise(unit_change) ==
    IF RLt(Rat(1, 100), unit_change)
    THEN [action |-> "Buy", unit_change |-> unit_change]
    ELSE IF RLt(unit_change, Rat(-1, 100))
    THEN [action |-> "Sell", unit_change |-> unit_change]
    ELSE [action |-> "Hold", unit_change |-> unit_change]

(* lines 48-55: the action of the day and the unit change reported *)
RebalanceAction(unit_change) ==
    IF RLt(Rat(1, 100), unit_change)
    THEN [action |-> "Buy", unit_change |-> unit_change]
    ELSE IF RLt(unit_change, Rat(-1, 100))
    THEN [action |-> "Sell", unit_change |-> unit_change]
    ELSE [action |-> "Hold", unit_change |-> RZero]

(* AfterRow without the break *)
AfterRow_NoBreak(account_liquidated) == "loop"

(* lines 64-65: where the loop stands after a row *)
AfterRow(account_liquidated) == IF account_liquidated THEN "break" ELSE "loop"

(* SimulationResult reporting the units held at the end as initial_units *)
SimulationResult_UnitsHeld(account, capital, initial_units_) ==
    [ liquidated       |-> account.liquidated,
      liquidation_date |-> account.liquidation_date,
      final_equity     |-> account.equity,
      total_return_pct |->
          RMul(RSub(RDiv(account.equity, capital), RInt(1)), RInt(100)),
      total_costs_paid |-> RNeg(account.cumulative_cost),
      initial_units    |-> account.units ]

(* SimulationResult reporting final_equity / capital * 100, without the -1 *)
SimulationResult_GrowthFactor(account, capital, initial_units_) ==
    [ liquidated       |-> account.liquidated,
      liquidation_date |-> account.liquidation_date,
      final_equity     |-> account.equity,
      total_return_pct |-> RMul(RDiv(account.equity, capital), RInt(100)),
      total_costs_paid |-> RNeg(account.cumulative_cost),
      initial_units    |-> initial_units_ ]

(* lines 79-86: the summary, from the account as the loop left it *)
SimulationResult(account, capital, initial_units_) ==
    [ liquidated       |-> account.liquidated,
      liquidation_date |-> account.liquidation_date,
      final_equity     |-> account.equity,
      total_return_pct |->
          RMul(RSub(RDiv(account.equity, capital), RInt(1)), RInt(100)),
      total_costs_paid |-> RNeg(account.cumulative_cost),
      initial_units    |-> initial_units_ ]

(* lines 67-77: the output rows, one per appended date *)
results_df ==
    [i \in 1..Len(dates) |->
        [ date     |-> dates[i],
          Leveraged_Equity |-> equity_values[i],
          Cumulative_Cost  |-> cost_values[i],
          Liquidation_Trigger_Level |-> trigger_values[i],
          Units_Held       |-> unit_values[i],
          Unit_Change      |-> unit_change_values[i],
          Rebalance_Action |-> action_values[i] ]]

(* lines 18-29; capital is kept as the account's initial_capital *)
DriverInit ==
    \E capital \in Capitals, entry \in EntryPrices,
       rebalance_frequency \in Frequencies,
       max_drop_percent \in DriverMaxDropPercents,
       data \in PriceSeries :
      \E units0 \in InitialUnits(capital, entry, max_drop_percent) :
        LET account == LeveragedAccount(capital, units0)
        IN  /\ equity = account.equity
            /\ units = account.units
            /\ initial_capital = account.initial_capital
            /\ cumulative_cost = account.cumulative_cost
            /\ liquidated = account.liquidated
            /\ liquidation_date = account.liquidation_date
            /\ previous_day_close = entry
            /\ previous_month = account.previous_month
            /\ previous_quarter = account.previous_quarter
            /\ params = [daily_coc |-> DriverDailyCoc,
                         rebalance_frequency |-> rebalance_frequency,
                         max_drop_percent |-> max_drop_percent]
            /\ entry_price = entry
            /\ initial_units = units0
            /\ units_before = units0
            /\ call = NoCall
            /\ rebalanced = FALSE
            /\ ticks = 0
            /\ sizing_calls = {}
            /\ historical_data = data
            /\ dates = <<>>
            /\ equity_values = <<>>
            /\ unit_values = <<>>
            /\ cost_values = <<>>
            /\ action_values = <<>>
            /\ trigger_values = <<>>
            /\ unit_change_values = <<>>
            /\ summary = None
            /\ pc = "loop"
            /\ NoBenchmark
            /\ NoLegacyAccount
            /\ NoRuns

(* the loop's iteration computing the row's trigger level from the low *)
ProcessDay_TriggerAtLow ==
    /\ pc = "loop"
    /\ ticks < Len(historical_data)
    /\ \E row \in {historical_data[ticks + 1]} :
        \E after \in {apply_daily_tick(Self, row.date, row.Low, row.Close,
                                       params.daily_coc, params.rebalance_frequency,
                                       params.max_drop_percent)} :
        \E change \in {RebalanceAction(RSub(after.self.units, units))} :
           /\ units_before' = units
           /\ equity' = after.self.equity
           /\ units' = after.self.units
           /\ initial_capital' = after.self.initial_capital
           /\ cumulative_cost' = after.self.cumulative_cost
           /\ liquidated' = after.self.liquidated
           /\ liquidation_date' = after.self.liquidation_date
           /\ previous_day_close' = after.self.previous_day_close
           /\ previous_month' = after.self.previous_month
           /\ previous_quarter' = after.self.previous_quarter
           /\ rebalanced' = after.rebalanced
           /\ call' = [date |-> row.date, low |-> row.Low, close |-> row.Close]
           /\ dates' = Append(dates, row.date)
           /\ equity_values' = Append(equity_values, after.self.equity)
           /\ cost_values' = Append(cost_values, after.self.cumulative_cost)
           /\ unit_values' = Append(unit_values, after.self.units)
           /\ action_values' = Append(action_values, change.action)
           /\ unit_change_values' = Append(unit_change_values, change.unit_change)
           /\ trigger_values' =
                 Append(trigger_values,
                        RMul(RMul(RMul(row.Low, after.self.units),
                                  MARGIN_REQ_DECIMAL), MARGIN_CLOSEOUT_DECIMAL))
           /\ pc' = AfterRow(after.self.liquidated)
    /\ ticks' = ticks + 1
    /\ UNCHANGED <<params, entry_price, initial_units, sizing_calls,
                   historical_data, summary>>
    /\ UNCHANGED benchmark_vars
    /\ UNCHANGED <<legacy_account, runs>>

(* lines 31-65: one iteration of the loop, on the next row of the series *)
ProcessDay ==
    /\ pc = "loop"
    /\ ticks < Len(historical_data)
    /\ \E row \in {historical_data[ticks + 1]} :
        \E after \in {apply_daily_tick(Self, row.date, row.Low, row.Close,
                                       params.daily_coc, params.rebalance_frequency,
                                       params.max_drop_percent)} :
        \E change \in {RebalanceAction(RSub(after.self.units, units))} :
           /\ units_before' = units
           /\ equity' = after.self.equity
           /\ units' = after.self.units
           /\ initial_capital' = after.self.initial_capital
           /\ cumulative_cost' = after.self.cumulative_cost
           /\ liquidated' = after.self.liquidated
           /\ liquidation_date' = after.self.liquidation_date
           /\ previous_day_close' = after.self.previous_day_close
           /\ previous_month' = after.self.previous_month
           /\ previous_quarter' = after.self.previous_quarter
           /\ rebalanced' = after.rebalanced
           /\ call' = [date |-> row.date, low |-> row.Low, close |-> row.Close]
           /\ dates' = Append(dates, row.date)
           /\ equity_values' = Append(equity_values, after.self.equity)
           /\ cost_values' = Append(cost_values, after.self.cumulative_cost)
           /\ unit_values' = Append(unit_values, after.self.units)
           /\ action_values' = Append(action_values, change.action)
           /\ unit_change_values' = Append(unit_change_values, change.unit_change)
           /\ trigger_values' =
                 Append(trigger_values,
                        RMul(RMul(RMul(row.Close, after.self.units),
                                  MARGIN_REQ_DECIMAL), MARGIN_CLOSEOUT_DECIMAL))
           /\ pc' = AfterRow(after.self.liquidated)
    /\ ticks' = ticks + 1
    /\ UNCHANGED <<params, entry_price, initial_units, sizing_calls,
                   historical_data, summary>>
    /\ UNCHANGED benchmark_vars
    /\ UNCHANGED <<legacy_account, runs>>

(* lines 67-88: past the loop, by break or by exhaustion *)
Summarise ==
    /\ pc = "break" \/ (pc = "loop" /\ ticks = Len(historical_data))
    /\ summary' = SimulationResult(Self, initial_capital, initial_units)
    /\ pc' = "done"
    /\ UNCHANGED <<account_vars, params, entry_price, initial_units, units_before,
                   call, rebalanced, ticks, sizing_calls, historical_data, dates,
                   equity_values, unit_values, cost_values, action_values,
                   trigger_values, unit_change_values>>
    /\ UNCHANGED benchmark_vars
    /\ UNCHANGED <<legacy_account, runs>>

DriverNext == ProcessDay \/ Summarise

DriverSpec == DriverInit /\ [][DriverNext]_vars

----------------------------------------------------------------------------
(* The same driver on the runs the tests and the documentation work with:  *)
(* capital 10000 at an entry price of 1000 with a max drop of 30 (or 70),  *)
(* the units sized by the function or the 27.5 of                          *)
(* test_leveraged_account.py, and series of one opening day followed by    *)
(* identical days.                                                         *)

MaxScenarioDays == 5

ScenarioTradingDays ==
    <<20240101, 20240102, 20240103, 20240104, 20240105, 20240108, 20240109>>

(* the days of the scenarios, as <<Low, Close>>: the 35% crash, the day at *)
(* 1010, a 10% gain, a 10% loss, a gain of 0.02% and a rally to 1200       *)
ScenarioDayKinds ==
    { <<RInt(650), RInt(660)>>, <<RInt(1000), RInt(1010)>>,
      <<RInt(1000), RInt(1100)>>, <<RInt(900), RInt(900)>>,
      <<RInt(1000), Rat(10002, 10)>>, <<RInt(1150), RInt(1200)>> }

ScenarioFrequencies == {"Never", "Daily"}

ScenarioMaxDropPercents == {RInt(30), RInt(70)}

ScenarioInitialUnits(capital, entry_price_, max_drop_percent) ==
    {calculate_target_units(capital, entry_price_, max_drop_percent), Rat(275, 10)}

(* n days: one of kind first, then days of kind rest *)
ScenarioSeriesOf(first, rest, n) ==
    [i \in 1..n |->
        [date  |-> ScenarioTradingDays[i],
         Low   |-> IF i = 1 THEN first[1] ELSE rest[1],
         Close |-> IF i = 1 THEN first[2] ELSE rest[2]]]

ScenarioSeries ==
    {ScenarioSeriesOf(first, rest, n) :
        first \in ScenarioDayKinds, rest \in ScenarioDayKinds,
        n \in 0..MaxScenarioDays}

ScenarioInit ==
    \E rebalance_frequency \in ScenarioFrequencies, data \in ScenarioSeries,
       max_drop_percent \in ScenarioMaxDropPercents :
      \E units0 \in ScenarioInitialUnits(RInt(10000), RInt(1000), max_drop_percent) :
        LET account == LeveragedAccount(RInt(10000), units0)
        IN  /\ equity = account.equity
            /\ units = account.units
            /\ initial_capital = account.initial_capital
            /\ cumulative_cost = account.cumulative_cost
            /\ liquidated = account.liquidated
            /\ liquidation_date = account.liquidation_date
            /\ previous_day_close = RInt(1000)
            /\ previous_month = account.previous_month
            /\ previous_quarter = account.previous_quarter
            /\ params = [daily_coc |-> DriverDailyCoc,
                         rebalance_frequency |-> rebalance_frequency,
                         max_drop_percent |-> max_drop_percent]
            /\ entry_price = RInt(1000)
            /\ initial_units = units0
            /\ units_before = units0
            /\ call = NoCall
            /\ rebalanced = FALSE
            /\ ticks = 0
            /\ sizing_calls = {}
            /\ historical_data = data
            /\ dates = <<>>
            /\ equity_values = <<>>
            /\ unit_values = <<>>
            /\ cost_values = <<>>
            /\ action_values = <<>>
            /\ trigger_values = <<>>
            /\ unit_change_values = <<>>
            /\ summary = None
            /\ pc = "loop"
            /\ NoBenchmark
            /\ NoLegacyAccount
            /\ NoRuns

ScenarioSpec == ScenarioInit /\ [][DriverNext]_vars

----------------------------------------------------------------------------
(* The benchmark: SimulationService.run_benchmark_simulation               *)
(* (application/simulation_service.py, lines 90-110) and the function it   *)
(* was refactored from (streamlit_app.py, lines 308-336).  Each returns    *)
(* [results_df, summary]; the frame is the sequence of its rows.           *)

(* run_benchmark_simulation reporting the first row as the final equity *)
run_benchmark_simulation_FirstRow(capital, entry_price_, historical_data_) ==
    LET benchmark_units == RDiv(capital, entry_price_)
        benchmark_equity ==
            [i \in 1..Len(historical_data_) |->
                [date |-> historical_data_[i].date,
                 Equity |-> RMul(benchmark_units, historical_data_[i].Close)]]
        final_equity == IF benchmark_equity # <<>>
                        THEN benchmark_equity[1].Equity
                        ELSE RZero
        total_return == IF RLt(RZero, capital)
                        THEN RMul(RSub(RDiv(final_equity, capital), RInt(1)), RInt(100))
                        ELSE RZero
    IN  [results_df |-> benchmark_equity,
         summary |-> [final_equity |-> final_equity,
                      total_return_pct |-> total_return,
                      units_held |-> benchmark_units]]

(* run_benchmark_simulation reporting the return as a fraction, not in percent *)
run_benchmark_simulation_ReturnAsFraction(capital, entry_price_, historical_data_) ==
    LET benchmark_units == RDiv(capital, entry_price_)
        benchmark_equity ==
            [i \in 1..Len(historical_data_) |->
                [date |-> historical_data_[i].date,
                 Equity |-> RMul(benchmark_units, historical_data_[i].Close)]]
        final_equity == IF benchmark_equity # <<>>
                        THEN benchmark_equity[Len(benchmark_equity)].Equity
                        ELSE RZero
        total_return == IF RLt(RZero, capital)
                        THEN RSub(RDiv(final_equity, capital), RInt(1))
                        ELSE RZero
    IN  [results_df |-> benchmark_equity,
         summary |-> [final_equity |-> final_equity,
                      total_return_pct |-> total_return,
                      units_held |-> benchmark_units]]

run_benchmark_simulation(capital, entry_price_, historical_data_) ==
    LET benchmark_units == RDiv(capital, entry_price_)
        benchmark_equity ==
            [i \in 1..Len(historical_data_) |->
                [date |-> historical_data_[i].date,
                 Equity |-> RMul(benchmark_units, historical_data_[i].Close)]]
        final_equity == IF benchmark_equity # <<>>
                        THEN benchmark_equity[Len(benchmark_equity)].Equity
                        ELSE RZero
        total_return == IF RLt(RZero, capital)
                        THEN RMul(RSub(RDiv(final_equity, capital), RInt(1)), RInt(100))
                        ELSE RZero
    IN  [results_df |-> benchmark_equity,
         summary |-> [final_equity |-> final_equity,
                      total_return_pct |-> total_return,
                      units_held |-> benchmark_units]]

legacy_run_benchmark_simulation(capital, entry_price_, historical_data_) ==
    LET benchmark_units == RDiv(capital, entry_price_)
        benchmark_equity ==
            [i \in 1..Len(historical_data_) |->
                [date |-> historical_data_[i].date,
                 Equity |-> RMul(benchmark_units, historical_data_[i].Close)]]
        final_benchmark_equity ==
            IF benchmark_equity # <<>>
            THEN benchmark_equity[Len(benchmark_equity)].Equity
            ELSE RZero
        total_benchmark_return ==
            IF benchmark_equity # <<>>
            THEN RMul(RSub(RDiv(final_benchmark_equity, capital), RInt(1)), RInt(100))
            ELSE RZero
    IN  [results_df |-> benchmark_equity,
         summary |-> [final_equity |-> final_benchmark_equity,
                      total_return_pct |-> total_benchmark_return,
                      units_held |-> benchmark_units]]

BenchmarkCapitals    == {RInt(5000), RInt(10000)}
BenchmarkEntryPrices == {RInt(500), RInt(1000), RInt(1116)}

(* the series of the driver's model and those of the scenarios *)
BenchmarkSeries == PriceSeries \cup ScenarioSeries

(* the arguments of the two functions: capital and entry_price in params,  *)
(* the series in historical_data                                           *)
BenchmarkInit ==
    \E capital \in BenchmarkCapitals, entry \in BenchmarkEntryPrices,
       data \in BenchmarkSeries :
        /\ equity = RZero
        /\ units = RZero
        /\ initial_capital = RZero
        /\ cumulative_cost = RZero
        /\ liquidated = FALSE
        /\ liquidation_date = None
        /\ previous_day_close = RZero
        /\ previous_month = None
        /\ previous_quarter = None
        /\ params = [capital |-> capital, entry_price |-> entry]
        /\ entry_price = entry
        /\ initial_units = RZero
        /\ units_before = RZero
        /\ call = NoCall
        /\ rebalanced = FALSE
        /\ ticks = 0
        /\ sizing_calls = {}
        /\ historical_data = data
        /\ dates = <<>>
        /\ equity_values = <<>>
        /\ unit_values = <<>>
        /\ cost_values = <<>>
        /\ action_values = <<>>
        /\ trigger_values = <<>>
        /\ unit_change_values = <<>>
        /\ summary = None
        /\ pc = "none"
        /\ NoBenchmark
        /\ NoLegacyAccount
        /\ NoRuns

(* a call of SimulationService.run_benchmark_simulation *)
RunBenchmark ==
    /\ benchmark_result = {}
    /\ benchmark_result' =
          {run_benchmark_simulation(params.capital, params.entry_price,
                                    historical_data)}
    /\ UNCHANGED <<account_vars, params, entry_price, initial_units, units_before,
                   call, rebalanced, ticks, sizing_calls, driver_vars,
                   legacy_benchmark_result, legacy_account, runs>>

(* a call of streamlit_app.run_benchmark_simulation *)
RunLegacyBenchmark ==
    /\ legacy_benchmark_result = {}
    /\ legacy_benchmark_result' =
          {legacy_run_benchmark_simulation(params.capital, params.entry_price,
                                           historical_data)}
    /\ UNCHANGED <<account_vars, params, entry_price, initial_units, units_before,
                   call, rebalanced, ticks, sizing_calls, driver_vars,
                   benchmark_result, legacy_account, runs>>

BenchmarkNext == RunBenchmark \/ RunLegacyBenchmark

BenchmarkSpec == BenchmarkInit /\ [][BenchmarkNext]_vars

----------------------------------------------------------------------------
(* The account of streamlit_app.py (lines 107-213), the class              *)
(* domain/account.py was extracted from, with the constants, the sizing    *)
(* function and the parameter dictionary of that file.  Both accounts are  *)
(* seeded alike and fed the same days.                                     *)

legacy_MARGIN_REQ_DECIMAL      == Rat(5, 100)
legacy_MARGIN_CLOSEOUT_DECIMAL == Rat(50, 100)

legacy_calculate_target_units(equity_, current_price, max_market_drop_percent) ==
    LET md_decimal == RDiv(max_market_drop_percent, RInt(100))
        broker_buffer_decimal ==
            RMul(legacy_MARGIN_REQ_DECIMAL, legacy_MARGIN_CLOSEOUT_DECIMAL)
        cost_buffer_decimal == RZero
        total_buffer_decimal ==
            RAdd(RAdd(md_decimal, broker_buffer_decimal), cost_buffer_decimal)
        total_cost_and_buffer_per_unit == RMul(current_price, total_buffer_decimal)
    IN  IF RLeq(total_buffer_decimal, RZero) THEN RZero
        ELSE IF RLeq(total_cost_and_buffer_per_unit, RZero) THEN RZero
        ELSE RDiv(equity_, total_cost_and_buffer_per_unit)

(* the dictionary run_simulation packs for the account *)
sim_params(daily_coc, rebalance_frequency, max_drop_percent) ==
    [ margin_req          |-> legacy_MARGIN_REQ_DECIMAL,
      margin_closeout     |-> legacy_MARGIN_CLOSEOUT_DECIMAL,
      daily_coc           |-> daily_coc,
      rebalance_frequency |-> rebalance_frequency,
      max_drop_percent    |-> max_drop_percent ]

LegacyLeveragedAccount(capital, initial_units_) ==
    [ equity             |-> capital,
      units              |-> initial_units_,
      initial_capital    |-> capital,
      cumulative_cost    |-> RZero,
      liquidated         |-> FALSE,
      liquidation_date   |-> None,
      previous_day_close |-> RZero,
      previous_month     |-> None,
      previous_quarter   |-> None ]

(* the legacy _should_rebalance comparing with the tracker before seeding it *)
legacy_should_rebalance_NoSeed(self, date, frequency) ==
    IF frequency = "Never" THEN [result |-> FALSE, self |-> self]
    ELSE IF frequency = "Daily" THEN [result |-> TRUE, self |-> self]
    ELSE IF frequency = "Monthly" THEN
        LET current_month == Month(date)
        IN  [result |-> current_month # self.previous_month,
             self |-> [self EXCEPT !.previous_month = current_month]]
    ELSE IF frequency = "Quarterly" THEN
        LET current_quarter == ((Month(date) - 1) \div 3) + 1
        IN  [result |-> current_quarter # self.previous_quarter,
             self |-> [self EXCEPT !.previous_quarter = current_quarter]]
    ELSE [result |-> FALSE, self |-> self]

(* _should_rebalance of the legacy class (lines 171-201): an unset tracker *)
(* is seeded with the day's period, then compared with it, then stored     *)
legacy_should_rebalance(self, date, frequency) ==
    IF frequency = "Never" THEN [result |-> FALSE, self |-> self]
    ELSE IF frequency = "Daily" THEN [result |-> TRUE, self |-> self]
    ELSE IF frequency = "Monthly" THEN
        LET current_month == Month(date)
            seeded == IF self.previous_month = None
                      THEN [self EXCEPT !.previous_month = current_month]
                      ELSE self
            perform_rebalance_today == current_month # seeded.previous_month
        IN  [result |-> perform_rebalance_today,
             self |-> [seeded EXCEPT !.previous_month = current_month]]
    ELSE IF frequency = "Quarterly" THEN
        LET current_quarter == ((Month(date) - 1) \div 3) + 1
            seeded == IF self.previous_quarter = None
                      THEN [self EXCEPT !.previous_quarter = current_quarter]
                      ELSE self
            perform_rebalance_today == current_quarter # seeded.previous_quarter
        IN  [result |-> perform_rebalance_today,
             self |-> [seeded EXCEPT !.previous_quarter = current_quarter]]
    ELSE [result |-> FALSE, self |-> self]

legacy_rebalance(self, close_price, params_) ==
    LET target_units == legacy_calculate_target_units(self.equity, close_price,
                                                      params_.max_drop_percent)
    IN  [self EXCEPT !.units = target_units]

(* apply_daily_tick(date, row, params) of the legacy class, lines 129-169 *)
legacy_apply_daily_tick(self, date, row, params_) ==
    IF self.liquidated THEN self
    ELSE LET pnl_at_low == RMul(RSub(row.Low, self.previous_day_close), self.units)
             equity_at_low == RAdd(self.equity, pnl_at_low)
             required_margin == RMul(RMul(row.Low, self.units), params_.margin_req)
             liquidation_trigger == RMul(required_margin, params_.margin_closeout)
         IN  IF RLeq(equity_at_low, liquidation_trigger)
             THEN [self EXCEPT !.liquidated = TRUE,
                               !.liquidation_date = date,
                               !.equity = liquidation_trigger]
             ELSE LET price_change == RSub(row.Close, self.previous_day_close)
                      market_pnl == RMul(self.units, price_change)
                      position_value_at_close == RMul(row.Close, self.units)
                      daily_cost == RMul(position_value_at_close, params_.daily_coc)
                      updated ==
                          [self EXCEPT
                              !.equity = RAdd(self.equity, RSub(market_pnl, daily_cost)),
                              !.cumulative_cost = RSub(self.cumulative_cost, daily_cost)]
                      should == legacy_should_rebalance(updated, date,
                                                        params_.rebalance_frequency)
                      sized == IF should.result
                               THEN legacy_rebalance(should.self, row.Close, params_)
                               ELSE should.self
                  IN  [sized EXCEPT !.previous_day_close = row.Close]

EquivalenceDailyCocs == {DriverDailyCoc, Rat(1, 40)}

(* both accounts constructed from the same capital and units, their        *)
(* previous_day_close set to the entry price (simulation_service.py,       *)
(* lines 20-21; streamlit_app.py, lines 232-234)                           *)
EquivalenceInit ==
    \E capital \in Capitals, entry \in EntryPrices,
       daily_coc \in EquivalenceDailyCocs, rebalance_frequency \in Frequencies,
       max_drop_percent \in MaxDropPercents :
      \E units0 \in InitialUnits(capital, entry, max_drop_percent) :
        LET account == LeveragedAccount(capital, units0)
        IN  /\ equity = account.equity
            /\ units = account.units
            /\ initial_capital = account.initial_capital
            /\ cumulative_cost = account.cumulative_cost
            /\ liquidated = account.liquidated
            /\ liquidation_date = account.liquidation_date
            /\ previous_day_close = entry
            /\ previous_month = account.previous_month
            /\ previous_quarter = account.previous_quarter
            /\ params = [daily_coc |-> daily_coc,
                         rebalance_frequency |-> rebalance_frequency,
                         max_drop_percent |-> max_drop_percent]
            /\ entry_price = entry
            /\ initial_units = units0
            /\ units_before = units0
            /\ call = NoCall
            /\ rebalanced = FALSE
            /\ ticks = 0
            /\ sizing_calls = {}
            /\ NoDriver
            /\ NoBenchmark
            /\ legacy_account =
                  {[LegacyLeveragedAccount(capital, units0)
                        EXCEPT !.previous_day_close = entry]}
            /\ NoRuns

(* one day handed to both accounts *)
TickBoth(current_date, low, close) ==
    /\ ticks < MaxTicks
    /\ current_date > call.date
    /\ RLeq(low, close)
    /\ \E after \in {apply_daily_tick(Self, current_date, low, close,
                                     params.daily_coc, params.rebalance_frequency,
                                     params.max_drop_percent)} :
           /\ equity' = after.self.equity
           /\ units' = after.self.units
           /\ initial_capital' = after.self.initial_capital
           /\ cumulative_cost' = after.self.cumulative_cost
           /\ liquidated' = after.self.liquidated
           /\ liquidation_date' = after.self.liquidation_date
           /\ previous_day_close' = after.self.previous_day_close
           /\ previous_month' = after.self.previous_month
           /\ previous_quarter' = after.self.previous_quarter
           /\ rebalanced' = after.rebalanced
    /\ legacy_account' =
          {legacy_apply_daily_tick(account, current_date,
                                   [Low |-> low, Close |-> close],
                                   sim_params(params.daily_coc,
                                              params.rebalance_frequency,
                                              params.max_drop_percent)) :
              account \in legacy_account}
    /\ units_before' = units
    /\ call' = [date |-> current_date, low |-> low, close |-> close]
    /\ ticks' = ticks + 1
    /\ UNCHANGED <<params, entry_price, initial_units, sizing_calls, runs>>
    /\ UNCHANGED driver_vars
    /\ UNCHANGED <<benchmark_result, legacy_benchmark_result>>

EquivalenceNext == \E current_date \in Dates, low \in Lows, close \in Closes :
                       TickBoth(current_date, low, close)

EquivalenceSpec == EquivalenceInit /\ [][EquivalenceNext]_vars

----------------------------------------------------------------------------
(* Two runs side by side.  run_leveraged_simulation constructs an account  *)
(* of its own (line 20) and is the only caller of it; two runs in progress *)
(* are two account objects whose calls interleave in any order.  A run is  *)
(* its arguments, its account and the days its account was handed so far.  *)

MaxRunCalls == 2

RunDates == {20200115, 20200203, 20200401}

(* the days handed to an account, as <<Low, Close>> *)
RunDays == { <<RInt(700), RInt(700)>>, <<RInt(1000), RInt(1050)>> }

RunFrequencies == {"Daily", "Monthly"}

(* the state of a run before its first day (lines 18-21) *)
NewRun(capital, initial_units_, entry_price_, rebalance_frequency, max_drop_percent) ==
    [ capital             |-> capital,
      initial_units       |-> initial_units_,
      entry_price         |-> entry_price_,
      daily_coc           |-> DriverDailyCoc,
      rebalance_frequency |-> rebalance_frequency,
      max_drop_percent    |-> max_drop_percent,
      account             |-> [LeveragedAccount(capital, initial_units_)
                                  EXCEPT !.previous_day_close = entry_price_],
      calls               |-> <<>> ]

NewRuns ==
    { NewRun(RInt(10000), units0, RInt(1000), rebalance_frequency, RInt(30)) :
        units0 \in InitialUnits(RInt(10000), RInt(1000), RInt(30)),
        rebalance_frequency \in RunFrequencies }

TwoRunsInit ==
    /\ NoAccount
    /\ NoDriver
    /\ NoBenchmark
    /\ NoLegacyAccount
    /\ sizing_calls = {}
    /\ \E first \in NewRuns, second \in NewRuns : runs = <<first, second>>

(* the loop iteration of a run whose account attributes previous_day_close *)
(* and the period trackers are shared by all accounts                      *)
TickRun_SharedTrackers(i, current_date, low, close) ==
    /\ i \in 1..Len(runs)
    /\ Len(runs[i].calls) < MaxRunCalls
    /\ runs[i].calls # <<>> => current_date > runs[i].calls[Len(runs[i].calls)].date
    /\ RLeq(low, close)
    /\ \E after \in {apply_daily_tick(runs[i].account, current_date, low, close,
                                     runs[i].daily_coc, runs[i].rebalance_frequency,
                                     runs[i].max_drop_percent).self} :
          runs' = [j \in 1..Len(runs) |->
                     IF j = i
                     THEN [runs[j] EXCEPT
                             !.account = after,
                             !.calls = Append(@, [date |-> current_date,
                                                  low |-> low, close |-> close])]
                     ELSE [runs[j] EXCEPT
                             !.account.previous_day_close = after.previous_day_close,
                             !.account.previous_month = after.previous_month,
                             !.account.previous_quarter = after.previous_quarter]]
    /\ UNCHANGED <<account_vars, params, entry_price, initial_units, units_before,
                   call, rebalanced, ticks, sizing_calls, legacy_account>>
    /\ UNCHANGED driver_vars
    /\ UNCHANGED <<benchmark_result, legacy_benchmark_result>>

(* lines 31-33 in run i: its account is handed its next day *)
TickRun(i, current_date, low, close) ==
    /\ i \in 1..Len(runs)
    /\ Len(runs[i].calls) < MaxRunCalls
    /\ runs[i].calls # <<>> => current_date > runs[i].calls[Len(runs[i].calls)].date
    /\ RLeq(low, close)
    /\ \E after \in {apply_daily_tick(runs[i].account, current_date, low, close,
                                     runs[i].daily_coc, runs[i].rebalance_frequency,
                                     runs[i].max_drop_percent).self} :
          runs' = [runs EXCEPT
                     ![i].account = after,
                     ![i].calls = Append(@, [date |-> current_date,
                                             low |-> low, close |-> close])]
    /\ UNCHANGED <<account_vars, params, entry_price, initial_units, units_before,
                   call, rebalanced, ticks, sizing_calls, legacy_account>>
    /\ UNCHANGED driver_vars
    /\ UNCHANGED <<benchmark_result, legacy_benchmark_result>>

TwoRunsNext ==
    \E i \in 1..2, current_date \in RunDates, day \in RunDays :
        TickRun(i, current_date, day[1], day[2])

TwoRunsSpec == TwoRunsInit /\ [][TwoRunsNext]_vars

----------------------------------------------------------------------------
(* What the claims measure, written from their own words: the level        *)
(* low * units * 0.05 * 0.50 and the equity marked at the day's low.       *)

ClaimTriggerLevel(low, units_) ==
    RMul(RMul(RMul(low, units_), Rat(5, 100)), Rat(50, 100))

ClaimEquityAtLow(equity_, low, previous_close, units_) ==
    RAdd(equity_, RMul(RSub(low, previous_close), units_))

(* the step is a call of apply_daily_tick (every step of Next is one) *)
Called == ticks' = ticks + 1

----------------------------------------------------------------------------
(* C1: once the account is liquidated, every later apply_daily_tick call,  *)
(* whatever its date, low and close and under every cost rate, frequency   *)
(* and max drop, leaves equity, units, cumulative_cost, previous_day_close,*)
(* liquidated, liquidation_date and both period trackers unchanged.        *)
C1_LiquidatedIsFrozen ==
    [][(liquidated /\ Called) =>
          /\ equity' = equity
          /\ units' = units
          /\ initial_capital' = initial_capital
          /\ cumulative_cost' = cumulative_cost
          /\ previous_day_close' = previous_day_close
          /\ liquidated' = liquidated
          /\ liquidation_date' = liquidation_date
          /\ previous_month' = previous_month
          /\ previous_quarter' = previous_quarter]_vars

(* a call was made on an account liquidated on an earlier day, with a low  *)
(* and a close other than those of the liquidation day                     *)
C1_Witness ==
    /\ liquidated
    /\ call.date > liquidation_date
    /\ ticks >= 2
    /\ ~REq(call.close, previous_day_close)

(* C2: a call on a live account liquidates it if and only if               *)
(* equity + (low - previous_close) * units <= low * units * 0.05 * 0.50,   *)
(* with the equity and previous close held before the call; equality       *)
(* liquidates and the close plays no part.                                 *)
C2_LiquidatesIffLowBreachesTrigger ==
    [][(~liquidated /\ Called) =>
          (liquidated' <=>
              RLeq(ClaimEquityAtLow(equity, call'.low, previous_day_close, units),
                   ClaimTriggerLevel(call'.low, units)))]_vars

(* the first call liquidated on equality (equity at the low is exactly the *)
(* trigger level) on a day that closed above the previous close            *)
C2_Witness ==
    /\ liquidated
    /\ ticks = 1
    /\ REq(ClaimEquityAtLow(initial_capital, call.low, entry_price, initial_units),
           ClaimTriggerLevel(call.low, initial_units))
    /\ RLt(entry_price, call.close)

(* C3: the call that liquidates sets liquidated, stamps the date, sets     *)
(* equity to exactly low * units * 0.05 * 0.50 and applies nothing else of *)
(* that day: cumulative_cost, units, previous_day_close and the trackers   *)
(* are unchanged.                                                          *)
C3_LiquidationDayClampsAndStops ==
    [][(~liquidated /\ liquidated') =>
          /\ REq(equity', ClaimTriggerLevel(call'.low, units))
          /\ liquidation_date' = call'.date
          /\ units' = units
          /\ cumulative_cost' = cumulative_cost
          /\ previous_day_close' = previous_day_close
          /\ previous_month' = previous_month
          /\ previous_quarter' = previous_quarter
          /\ ~rebalanced']_vars

(* an account liquidated by its latest call, after days that accrued cost, *)
(* on a day that closed away from the previous close                       *)
C3_Witness ==
    /\ liquidated
    /\ liquidation_date = call.date
    /\ ticks >= 2
    /\ RLt(cumulative_cost, RZero)
    /\ RLt(RZero, equity)
    /\ ~REq(call.close, previous_day_close)

(* C4: a call that does not liquidate changes equity by exactly            *)
(* units * (close - previous_close) - close * units * daily_coc and        *)
(* cumulative_cost by exactly -close * units * daily_coc, with the units   *)
(* held before the call, under every frequency and also after a rebalance  *)
(* changed the units; on a flat day the market P&L term is zero, so the    *)
(* equity changes by exactly -close * units * daily_coc.                   *)
C4_EquityAndCostDeltas ==
    [][(~liquidated /\ ~liquidated' /\ Called) =>
          \E cost \in {RMul(RMul(call'.close, units), params.daily_coc)} :
            \E pnl \in {RMul(units, RSub(call'.close, previous_day_close))} :
              /\ REq(RSub(equity', equity), RSub(pnl, cost))
              /\ REq(RSub(cumulative_cost', cumulative_cost), RNeg(cost))
              /\ REq(call'.close, previous_day_close) => pnl = RZero]_vars

(* the latest call did not liquidate and started from units that an        *)
(* earlier rebalance had changed                                           *)
C4_Witness ==
    /\ ~liquidated
    /\ ticks >= 2
    /\ ~REq(units_before, initial_units)
    /\ RLt(RZero, units_before)
    /\ RLt(cumulative_cost, RZero)

(* C5: right after a position is sized by the sizing function (units =     *)
(* sizing(equity, P, max_drop) with equity > 0 and previous close P), a    *)
(* call whose low is at or above P * (1 - max_drop/100) does not liquidate.*)
C5_SizedPositionSurvivesMaxDrop ==
    [][(/\ ~liquidated
        /\ Called
        /\ RLt(RZero, equity)
        /\ RLt(RZero, previous_day_close)
        /\ REq(units, calculate_target_units(equity, previous_day_close,
                                             params.max_drop_percent))
        /\ RLeq(RMul(previous_day_close,
                     RSub(RInt(1), RDiv(params.max_drop_percent, RInt(100)))),
                call'.low))
       => ~liquidated']_vars

(* the first call of an account sized at the entry price had its low       *)
(* exactly max_drop percent below the entry price and did not liquidate    *)
C5_Witness ==
    /\ ~liquidated
    /\ ticks = 1
    /\ REq(initial_units, calculate_target_units(initial_capital, entry_price,
                                                 params.max_drop_percent))
    /\ REq(call.low, RMul(entry_price,
                          RSub(RInt(1), RDiv(params.max_drop_percent, RInt(100)))))

(* C6: liquidated never returns from true to false; liquidation_date is    *)
(* unset exactly while liquidated is false, is set to the date of the call *)
(* that liquidates, and never changes afterwards.                          *)
C6_LiquidationIsOneWay ==
    /\ (liquidation_date = None <=> ~liquidated)
    /\ [][/\ liquidated => liquidated'
          /\ liquidated => liquidation_date' = liquidation_date
          /\ (~liquidated /\ liquidated') => liquidation_date' = call'.date
          /\ liquidation_date' = None <=> ~liquidated']_vars

(* a liquidated account whose date is still that of an earlier call *)
C6_Witness ==
    /\ liquidated
    /\ liquidation_date # None
    /\ liquidation_date < call.date
    /\ ticks = MaxTicks

(* C7, as claimed: in every reachable state cumulative_cost <= 0, and no   *)
(* call increases it, for every non-negative daily cost rate and every     *)
(* frequency (capital > 0, initial units >= 0, 0 < low <= close).          *)
C7_CostNeverIncreases_AnyRate ==
    /\ RLeq(cumulative_cost, RZero)
    /\ [][/\ RLeq(cumulative_cost', cumulative_cost)
          /\ RLeq(cumulative_cost', RZero)]_vars

(* C7, amended: the same for every daily cost rate from 0 to 0.05 * 0.50   *)
(* (the driver's 0.0533/365 is one): there the equity a rebalance sizes    *)
(* from is positive, so the units and each day's cost are non-negative.    *)
C7_CostNeverIncreases ==
    /\ RLeq(cumulative_cost, RZero)
    /\ [][(/\ RLeq(RZero, params.daily_coc)
           /\ RLeq(params.daily_coc, RMul(Rat(5, 100), Rat(50, 100))))
          => /\ RLeq(cumulative_cost', cumulative_cost)
             /\ RLeq(cumulative_cost', RZero)]_vars

(* at the largest rate covered, a live account has paid cost on days after *)
(* a rebalance resized it                                                  *)
C7_Witness ==
    /\ ~liquidated
    /\ ticks >= 2
    /\ REq(params.daily_coc, Rat(1, 40))
    /\ ~REq(units_before, initial_units)
    /\ rebalanced
    /\ RLt(cumulative_cost, RZero)

(* C8: with the driver's daily cost rate 0.0533/365 (capital > 0, initial  *)
(* units >= 0, entry price > 0, 0 < low <= close), after every call units  *)
(* >= 0 and equity >= 0 under every frequency: equity is strictly positive *)
(* while the account is live and is the non-negative trigger level once it *)
(* is liquidated.                                                          *)
C8_UnitsAndEquityNonNegative ==
    REq(params.daily_coc, RDiv(Rat(533, 10000), RInt(365))) =>
        /\ RLeq(RZero, units)
        /\ RLeq(RZero, equity)
        /\ ~liquidated => RLt(RZero, equity)
        /\ (liquidated /\ liquidation_date = call.date) =>
               REq(equity, ClaimTriggerLevel(call.low, units))

(* at the driver's rate, a live account that was resized on a day closing  *)
(* 30% below the entry price, with most of its capital lost                *)
C8_Witness ==
    /\ REq(params.daily_coc, RDiv(Rat(533, 10000), RInt(365)))
    /\ ~liquidated
    /\ ticks >= 2
    /\ rebalanced
    /\ RLt(call.close, entry_price)
    /\ RLt(RMul(RInt(4), equity), initial_capital)
    /\ RLt(RZero, units)

(* C9: units changes only through a rebalance: a call that does not        *)
(* rebalance (a liquidating call included) leaves units as they were, and  *)
(* under frequency Never units is the initial unit count after any         *)
(* sequence of calls.                                                      *)
C9_UnitsChangeOnlyByRebalance ==
    /\ params.rebalance_frequency = "Never" => units = initial_units
    /\ [][/\ ~rebalanced' => units' = units
          /\ liquidated' => units' = units
          /\ params.rebalance_frequency = "Never" => units' = initial_units]_vars

(* under Never, a live account after the last call of the run, its equity  *)
(* moved and its units still the initial ones                              *)
C9_Witness ==
    /\ params.rebalance_frequency = "Never"
    /\ ~liquidated
    /\ ticks = MaxTicks
    /\ ~REq(equity, initial_capital)
    /\ ~REq(call.close, entry_price)
    /\ units = initial_units

(* C10, as claimed: under Monthly, over a date-ordered series (calendar    *)
(* gaps allowed), a call that does not liquidate rebalances exactly when   *)
(* its day is the first processed day of a new calendar month, i.e. when   *)
(* there is an earlier processed day and that day lies in another calendar *)
(* month (of whatever year); the first day never rebalances.               *)
C10_MonthlyRebalancesOnNewCalendarMonth ==
    [][(/\ params.rebalance_frequency = "Monthly"
        /\ ~liquidated /\ ~liquidated'
        /\ Called)
       => (rebalanced' <=>
             /\ call.date # None
             /\ <<Year(call'.date), Month(call'.date)>>
                  # <<Year(call.date), Month(call.date)>>)]_vars

(* the quarter index of a date, in the claim's words: (month - 1) // 3 + 1 *)
ClaimQuarterIndex(date) == ((((date \div 100) % 100) - 1) \div 3) + 1

(* C11: under Quarterly, a call that does not liquidate rebalances if and  *)
(* only if there is a previously processed day and the quarter index       *)
(* (month - 1) // 3 + 1 of the call's date differs from that day's; so the *)
(* first processed day never rebalances, and neither does a day in another *)
(* month of the same quarter.                                              *)
C11_QuarterlyRebalancesOnNewQuarterIndex ==
    [][(/\ params.rebalance_frequency = "Quarterly"
        /\ ~liquidated /\ ~liquidated'
        /\ Called)
       => /\ rebalanced' <=>
               /\ call.date # None
               /\ ClaimQuarterIndex(call'.date) # ClaimQuarterIndex(call.date)
          /\ call.date = None => ~rebalanced'
          /\ (/\ call.date # None
              /\ Month(call'.date) # Month(call.date)
              /\ ClaimQuarterIndex(call'.date) = ClaimQuarterIndex(call.date))
             => ~rebalanced']_vars

(* under Quarterly, a live account whose second call came in February     *)
(* after a first call in January: another month, the same quarter, and no  *)
(* rebalance                                                               *)
C11_Witness ==
    /\ params.rebalance_frequency = "Quarterly"
    /\ ~liquidated
    /\ ticks = 2
    /\ previous_quarter = 1
    /\ Month(call.date) = 2
    /\ ~rebalanced
    /\ units = initial_units

(* C12: a call that rebalances leaves units = sizing(equity after the      *)
(* day's P&L and cost, the day's close, max_drop_percent), whatever the    *)
(* units were, and the rebalance itself moves neither equity nor           *)
(* cumulative_cost: both are what the day's P&L and cost alone make them.  *)
(* Under Daily every call that does not liquidate rebalances.              *)
C12_RebalanceSizesFromUpdatedEquity ==
    [][/\ (Called /\ rebalanced') =>
            \E cost \in {RMul(RMul(call'.close, units), params.daily_coc)} :
              \E pnl \in {RMul(units, RSub(call'.close, previous_day_close))} :
                /\ REq(equity', RAdd(equity, RSub(pnl, cost)))
                /\ REq(cumulative_cost', RSub(cumulative_cost, cost))
                /\ REq(units', calculate_target_units(equity', call'.close,
                                                      params.max_drop_percent))
       /\ (/\ params.rebalance_frequency = "Daily"
           /\ Called /\ ~liquidated /\ ~liquidated') => rebalanced']_vars

(* under Daily, the latest call rebalanced on a day that closed away from  *)
(* the previous close, from units an earlier rebalance had already changed *)
C12_Witness ==
    /\ params.rebalance_frequency = "Daily"
    /\ rebalanced
    /\ ticks >= 2
    /\ ~REq(units_before, initial_units)
    /\ ~REq(units, units_before)
    /\ REq(units, calculate_target_units(equity, call.close, params.max_drop_percent))

(* the buffer of the claim: max_drop_percent/100 + 0.05 * 0.50 *)
ClaimBuffer(max_drop_percent) ==
    RAdd(RDiv(max_drop_percent, RInt(100)), RMul(Rat(5, 100), Rat(50, 100)))

ClaimValidSizing(c) ==
    /\ RLeq(RZero, c.equity)
    /\ RLt(RZero, c.current_price)
    /\ RLeq(RInt(10), c.max_market_drop_percent)
    /\ RLeq(c.max_market_drop_percent, RInt(70))

(* C14: over equity >= 0, price > 0 and max_drop_percent in [10, 70], the  *)
(* sizing function is non-increasing in max_drop_percent and in price      *)
(* (the other arguments equal), and proportional in equity: scaling the    *)
(* equity by k scales the units by k; doubling the price halves the units. *)
C14_SizingMonotoneAndProportional ==
    \A a, b \in sizing_calls :
      (ClaimValidSizing(a) /\ ClaimValidSizing(b)) =>
        /\ (/\ a.equity = b.equity /\ a.current_price = b.current_price
            /\ RLeq(a.max_market_drop_percent, b.max_market_drop_percent))
             => RLeq(b.result, a.result)
        /\ (/\ a.equity = b.equity
            /\ a.max_market_drop_percent = b.max_market_drop_percent
            /\ RLeq(a.current_price, b.current_price))
             => RLeq(b.result, a.result)
        /\ (/\ a.current_price = b.current_price
            /\ a.max_market_drop_percent = b.max_market_drop_percent
            /\ RLt(RZero, a.equity))
             => REq(b.result, RMul(RDiv(b.equity, a.equity), a.result))
        /\ (/\ a.equity = b.equity
            /\ a.max_market_drop_percent = b.max_market_drop_percent
            /\ REq(b.current_price, RMul(RInt(2), a.current_price)))
             => REq(b.result, RDiv(a.result, RInt(2)))

(* two calls on valid arguments that differ in the max drop alone, with    *)
(* strictly fewer units for the larger max drop                            *)
C14_Witness ==
    \E a, b \in sizing_calls :
      /\ ClaimValidSizing(a) /\ ClaimValidSizing(b)
      /\ a.equity = b.equity /\ a.current_price = b.current_price
      /\ RLt(a.max_market_drop_percent, b.max_market_drop_percent)
      /\ RLt(b.result, a.result)

(* the position in the series of the day the account was liquidated on, or *)
(* 0 when there is no such day                                             *)
ClaimLiquidationPosition ==
    IF \E i \in 1..Len(historical_data) : historical_data[i].date = liquidation_date
    THEN CHOOSE i \in 1..Len(historical_data) :
            historical_data[i].date = liquidation_date
    ELSE 0

(* C15: the leveraged driver emits one output row per processed day, in    *)
(* input order; it stops after the first day whose tick liquidates the     *)
(* account, that day's row included, and otherwise processes every day:    *)
(* when it returns, the number of rows is the position of the liquidating  *)
(* day, or the length of the series if no day liquidates, and no day after *)
(* the liquidation day ever has a row.                                     *)
C15_OneRowPerDayUntilLiquidation ==
    (pc \in {"loop", "break", "done"}) =>
        /\ Len(results_df) = ticks
        /\ Len(equity_values) = ticks /\ Len(cost_values) = ticks
        /\ Len(unit_values) = ticks /\ Len(action_values) = ticks
        /\ Len(trigger_values) = ticks /\ Len(unit_change_values) = ticks
        /\ Len(results_df) <= Len(historical_data)
        /\ \A i \in 1..Len(results_df) : results_df[i].date = historical_data[i].date
        /\ liquidated =>
              /\ ClaimLiquidationPosition = Len(results_df)
              /\ \A i \in 1..Len(results_df) : results_df[i].date <= liquidation_date
        /\ (pc = "done" /\ ~liquidated) => Len(results_df) = Len(historical_data)

(* the driver has returned after a liquidation on the second day of a      *)
(* series of three: two rows, none for the third day                       *)
C15_Witness ==
    /\ pc = "done"
    /\ liquidated
    /\ Len(historical_data) = 3
    /\ Len(results_df) = 2
    /\ liquidation_date = historical_data[2].date

(* C16: the summary is computed once, when the loop is over, from the      *)
(* account as it then is: liquidated and liquidation_date are the          *)
(* account's, final_equity is the account's equity (the equity of the last *)
(* row, if there is a row), total_return_pct is                            *)
(* (final_equity / capital - 1) * 100, total_costs_paid is                 *)
(* -cumulative_cost, a non-negative amount, and initial_units is the value *)
(* passed in, also when rebalancing changed the units held.                *)
C16_SummaryFromFinalAccount ==
    /\ (pc \in {"loop", "break"}) => summary = None
    /\ pc = "done" =>
        /\ summary.liquidated = liquidated
        /\ summary.liquidation_date = liquidation_date
        /\ summary.final_equity = equity
        /\ Len(results_df) >= 1 =>
              /\ summary.final_equity = results_df[Len(results_df)].Leveraged_Equity
              /\ REq(summary.total_costs_paid,
                     RNeg(results_df[Len(results_df)].Cumulative_Cost))
        /\ REq(summary.total_return_pct,
               RMul(RSub(RDiv(summary.final_equity, initial_capital), RInt(1)),
                    RInt(100)))
        /\ REq(summary.total_costs_paid, RNeg(cumulative_cost))
        /\ RLeq(RZero, summary.total_costs_paid)
        /\ summary.initial_units = initial_units

(* the driver has returned from a run of three days that paid cost and     *)
(* ended, not liquidated, with units other than the initial ones           *)
C16_Witness ==
    /\ pc = "done"
    /\ ~liquidated
    /\ Len(results_df) = 3
    /\ ~REq(units, initial_units)
    /\ RLt(RZero, summary.total_costs_paid)
    /\ ~REq(summary.final_equity, initial_capital)

(* the units held before the i-th processed day *)
ClaimUnitsBefore(i) == IF i = 1 THEN initial_units ELSE unit_values[i - 1]

(* C17: for each processed day, with delta the units after the tick minus  *)
(* the units before it, the row reports Buy and delta when delta > 0.01,   *)
(* Sell and delta when delta < -0.01, and otherwise Hold and a unit change *)
(* of exactly 0; so a row is Hold if and only if its unit change is 0, and *)
(* under Never, and on a liquidation day, every row is Hold.               *)
C17_BuySellHoldByUnitDelta ==
    \A i \in 1..Len(results_df) :
      \E delta \in {RSub(unit_values[i], ClaimUnitsBefore(i))} :
        /\ RLt(Rat(1, 100), delta) =>
              /\ results_df[i].Rebalance_Action = "Buy"
              /\ REq(results_df[i].Unit_Change, delta)
        /\ RLt(delta, Rat(-1, 100)) =>
              /\ results_df[i].Rebalance_Action = "Sell"
              /\ REq(results_df[i].Unit_Change, delta)
        /\ (RLeq(delta, Rat(1, 100)) /\ RLeq(Rat(-1, 100), delta)) =>
              /\ results_df[i].Rebalance_Action = "Hold"
              /\ results_df[i].Unit_Change = RZero
        /\ results_df[i].Rebalance_Action = "Hold" <=> results_df[i].Unit_Change = RZero
        /\ params.rebalance_frequency = "Never" =>
              results_df[i].Rebalance_Action = "Hold"
        /\ (liquidated /\ results_df[i].date = liquidation_date) =>
              results_df[i].Rebalance_Action = "Hold"

(* three rows: a Hold whose units moved by less than 0.01 and was reported *)
(* as 0, a Buy and a Sell                                                  *)
C17_Witness ==
    /\ \E i \in 1..Len(results_df) :
          /\ results_df[i].Rebalance_Action = "Hold"
          /\ ~REq(unit_values[i], ClaimUnitsBefore(i))
    /\ \E i \in 1..Len(results_df) : results_df[i].Rebalance_Action = "Buy"
    /\ \E i \in 1..Len(results_df) : results_df[i].Rebalance_Action = "Sell"

(* C18: over an empty price series the leveraged driver returns, without   *)
(* faulting, no rows and the summary of zero elapsed days: liquidated      *)
(* false, no liquidation date, final_equity = capital, total_return_pct =  *)
(* 0 and total_costs_paid = 0.                                             *)
C18_EmptySeriesSummary ==
    (historical_data = <<>> /\ pc = "done") =>
        /\ results_df = <<>>
        /\ summary.liquidated = FALSE
        /\ summary.liquidation_date = None
        /\ REq(summary.final_equity, initial_capital)
        /\ REq(summary.total_return_pct, RZero)
        /\ REq(summary.total_costs_paid, RZero)

(* the driver has returned from a run over the empty series *)
C18_Witness ==
    /\ historical_data = <<>>
    /\ pc = "done"
    /\ ticks = 0
    /\ equity_values = <<>>
    /\ REq(summary.final_equity, initial_capital)

(* C19: the benchmark driver computes units = capital / entry_price once   *)
(* and emits one row per input day, in order, with equity = units * that   *)
(* day's close, never truncated; its summary reports units_held = units    *)
(* and, the series having a last row, final_equity = that row's equity and *)
(* total_return_pct = (final_equity / capital - 1) * 100.                  *)
C19_BenchmarkRowsAndSummary ==
    \A r \in benchmark_result \cup legacy_benchmark_result :
      \E claim_units \in {RDiv(params.capital, params.entry_price)} :
        /\ Len(r.results_df) = Len(historical_data)
        /\ \A i \in 1..Len(historical_data) :
              /\ r.results_df[i].date = historical_data[i].date
              /\ REq(r.results_df[i].Equity,
                     RMul(claim_units, historical_data[i].Close))
        /\ REq(r.summary.units_held, claim_units)
        /\ Len(historical_data) >= 1 =>
              /\ r.summary.final_equity = r.results_df[Len(r.results_df)].Equity
              /\ REq(r.summary.total_return_pct,
                     RMul(RSub(RDiv(r.summary.final_equity, params.capital),
                               RInt(1)), RInt(100)))

(* both functions have returned over a series of three days whose closes   *)
(* differ, the last one below the entry price: a loss                      *)
C19_Witness ==
    /\ benchmark_result # {}
    /\ legacy_benchmark_result # {}
    /\ Len(historical_data) = 3
    /\ ~REq(historical_data[1].Close, historical_data[3].Close)
    /\ RLt(historical_data[3].Close, params.entry_price)
    /\ \A r \in benchmark_result : RLt(r.summary.total_return_pct, RZero)

(* C20, as claimed: handed an empty price series (capital > 0 and          *)
(* entry_price > 0), the benchmark driver returns a zero summary:          *)
(* final_equity = 0 and total_return_pct = 0.                              *)
C20_EmptyBenchmarkIsZeroSummary ==
    (/\ historical_data = <<>>
     /\ RLt(RZero, params.capital) /\ RLt(RZero, params.entry_price))
    => \A r \in benchmark_result \cup legacy_benchmark_result :
          /\ REq(r.summary.final_equity, RZero)
          /\ REq(r.summary.total_return_pct, RZero)

(* the scenario of C21 has run: Never, units from the sizing function, one *)
(* day with low 650 and close 660                                          *)
ClaimCrashScenarioDone ==
    /\ pc = "done"
    /\ REq(params.max_drop_percent, RInt(30))
    /\ params.rebalance_frequency = "Never"
    /\ REq(initial_units, calculate_target_units(RInt(10000), RInt(1000), RInt(30)))
    /\ Len(historical_data) = 1
    /\ REq(historical_data[1].Low, RInt(650))
    /\ REq(historical_data[1].Close, RInt(660))

(* C21, as claimed: capital 10000, entry price 1000, max drop 30, units    *)
(* from the sizing function, Never, one day with low 650 and close 660:    *)
(* the run ends liquidated on that date with exactly one row, and the      *)
(* final equity is about 450 (650 * 27.6923... * 0.05 * 0.50).             *)
C21_CrashScenarioEndsNear450 ==
    ClaimCrashScenarioDone =>
        /\ summary.liquidated
        /\ summary.liquidation_date = historical_data[1].date
        /\ Len(results_df) = 1
        /\ RLt(RInt(449), summary.final_equity)
        /\ RLt(summary.final_equity, RInt(451))

(* C21, amended: in the same scenario the run ends liquidated on that date *)
(* with exactly one row, and the final equity is the trigger level at the  *)
(* low for the units the sizing function gives, 10000/325 = 30.7692...:    *)
(* 650 * 30.7692... * 0.05 * 0.50 = 500.                                   *)
C21_CrashScenarioEndsAtTrigger ==
    ClaimCrashScenarioDone =>
        /\ summary.liquidated
        /\ summary.liquidation_date = historical_data[1].date
        /\ Len(results_df) = 1
        /\ REq(summary.final_equity,
               RMul(RMul(RMul(RInt(650), Rat(10000, 325)), Rat(5, 100)), Rat(50, 100)))
        /\ REq(summary.final_equity, RInt(500))
        /\ REq(results_df[1].Leveraged_Equity, RInt(500))

(* the scenario has run and the driver has returned its summary *)
C21_Witness ==
    /\ ClaimCrashScenarioDone
    /\ liquidated
    /\ ticks = 1

(* C22: under Never, over consecutive days that do not liquidate and have  *)
(* the same close, cumulative_cost strictly decreases each day by the same *)
(* amount close * units * daily cost rate and the equity of the rows       *)
(* decreases; with capital 10000, 27.5 units, entry price 1000 and five    *)
(* days at close 1010 (lows above the trigger) the run is not liquidated   *)
(* and has five rows.                                                      *)
C22_FlatDaysCostTheSameEachDay ==
    (params.rebalance_frequency = "Never" /\ pc \in {"loop", "break", "done"}) =>
        /\ \A i \in 1..(Len(results_df) - 1) :
              (/\ REq(historical_data[i].Close, historical_data[i + 1].Close)
               /\ ~(liquidated /\ liquidation_date = results_df[i + 1].date))
              => \E step \in {RMul(RMul(historical_data[i + 1].Close, initial_units),
                                    DriverDailyCoc)} :
                   /\ RLt(RZero, step)
                   /\ REq(RSub(results_df[i + 1].Cumulative_Cost,
                               results_df[i].Cumulative_Cost), RNeg(step))
                   /\ REq(RSub(results_df[i + 1].Leveraged_Equity,
                               results_df[i].Leveraged_Equity), RNeg(step))
                   /\ RLt(results_df[i + 1].Leveraged_Equity,
                          results_df[i].Leveraged_Equity)
        /\ (/\ pc = "done"
            /\ REq(initial_units, Rat(275, 10))
            /\ Len(historical_data) = 5
            /\ \A i \in 1..5 : REq(historical_data[i].Close, RInt(1010)))
           => /\ ~summary.liquidated
              /\ Len(results_df) = 5

(* the scenario of five days at 1010 with 27.5 units has run *)
C22_Witness ==
    /\ pc = "done"
    /\ params.rebalance_frequency = "Never"
    /\ REq(initial_units, Rat(275, 10))
    /\ Len(historical_data) = 5
    /\ \A i \in 1..5 : REq(historical_data[i].Close, RInt(1010))
    /\ Len(results_df) = 5
    /\ RLt(results_df[5].Cumulative_Cost, results_df[4].Cumulative_Cost)

(* the scenario of C23 has run: capital 10000, entry price 1116, one day    *)
(* with close 1200                                                         *)
ClaimBenchmarkScenario ==
    /\ REq(params.capital, RInt(10000))
    /\ REq(params.entry_price, RInt(1116))
    /\ Len(historical_data) = 1
    /\ REq(historical_data[1].Close, RInt(1200))

(* C23, as claimed: with capital 10000, entry price 1116 and a series of   *)
(* one day with close 1200 the benchmark driver reports units of about     *)
(* 8.96, a final equity of about 9677.4 and a total return of about -3.2%. *)
C23_BenchmarkScenarioLosesThreePercent ==
    ClaimBenchmarkScenario =>
        \A r \in benchmark_result \cup legacy_benchmark_result :
            /\ RLt(Rat(8955, 1000), r.summary.units_held)
            /\ RLt(r.summary.units_held, Rat(8965, 1000))
            /\ RLt(Rat(967735, 100), r.summary.final_equity)
            /\ RLt(r.summary.final_equity, Rat(967745, 100))
            /\ RLt(RNeg(Rat(325, 100)), r.summary.total_return_pct)
            /\ RLt(r.summary.total_return_pct, RNeg(Rat(315, 100)))

(* C23, amended: in the same scenario the benchmark driver reports units   *)
(* of about 8.96 (10000 / 1116), a final equity of about 10752.7           *)
(* (units * 1200) and a total return of about +7.5%                        *)
(* ((final_equity / 10000 - 1) * 100).                                     *)
C23_BenchmarkScenarioGainsSevenPercent ==
    ClaimBenchmarkScenario =>
        \A r \in benchmark_result \cup legacy_benchmark_result :
            /\ REq(r.summary.units_held, Rat(10000, 1116))
            /\ RLt(Rat(8955, 1000), r.summary.units_held)
            /\ RLt(r.summary.units_held, Rat(8965, 1000))
            /\ REq(r.summary.final_equity, RMul(Rat(10000, 1116), RInt(1200)))
            /\ RLt(Rat(1075265, 100), r.summary.final_equity)
            /\ RLt(r.summary.final_equity, Rat(1075275, 100))
            /\ RLt(Rat(745, 100), r.summary.total_return_pct)
            /\ RLt(r.summary.total_return_pct, Rat(755, 100))

(* both benchmark functions have returned in the scenario *)
C23_Witness ==
    /\ ClaimBenchmarkScenario
    /\ benchmark_result # {}
    /\ legacy_benchmark_result # {}
    /\ \A r \in benchmark_result : Len(r.results_df) = 1

(* the frequency of the run is none of the four the code names *)
ClaimUnknownFrequency ==
    params.rebalance_frequency \notin {"Never", "Daily", "Monthly", "Quarterly"}

(* C24: a frequency other than Never, Daily, Monthly and Quarterly behaves *)
(* as Never: no call rebalances, units stay the initial units, the month   *)
(* and quarter trackers stay unset, and every call leaves the account as   *)
(* the same call under Never would (equity, cost, liquidation, close).     *)
C24_UnknownFrequencyIsNever ==
    /\ ClaimUnknownFrequency =>
          /\ ~rebalanced
          /\ units = initial_units
          /\ previous_month = None
          /\ previous_quarter = None
    /\ [][(ClaimUnknownFrequency /\ Called) =>
            /\ ~rebalanced'
            /\ units' = units
            /\ Self' = apply_daily_tick(Self, call'.date, call'.low, call'.close,
                                        params.daily_coc, "Never",
                                        params.max_drop_percent).self]_vars

(* under Weekly, a live account after two calls in different months and    *)
(* quarters, the last close away from the entry price: any of the other    *)
(* frequencies but Never would have resized the position                   *)
C24_Witness ==
    /\ params.rebalance_frequency = "Weekly"
    /\ ticks = 2
    /\ ~liquidated
    /\ call.date = 20200401
    /\ ~REq(call.close, entry_price)
    /\ ~REq(equity, initial_capital)
    /\ units = initial_units

(* C26: after every call that does not liquidate, previous_day_close is    *)
(* that call's close, so the next day's P&L is counted from it; a          *)
(* liquidating call and a call on a liquidated account leave               *)
(* previous_day_close unchanged; before the first day it is the entry      *)
(* price the driver seeded.                                                *)
C26_PreviousCloseCarriedForward ==
    /\ ticks = 0 => previous_day_close = entry_price
    /\ (ticks >= 1 /\ ~liquidated) => previous_day_close = call.close
    /\ [][Called =>
            /\ ~liquidated' => previous_day_close' = call'.close
            /\ liquidated' => previous_day_close' = previous_day_close
            /\ (ticks >= 1 /\ ~liquidated /\ ~liquidated') =>
                  \E cost \in {RMul(RMul(call'.close, units), params.daily_coc)} :
                    \E pnl \in {RMul(units, RSub(call'.close, call.close))} :
                      REq(RSub(equity', equity), RSub(pnl, cost))]_vars

(* a live account after two calls whose closes differ from each other and  *)
(* from the entry price                                                    *)
C26_Witness ==
    /\ ticks = 2
    /\ ~liquidated
    /\ ~REq(call.close, entry_price)
    /\ REq(call.close, RInt(1050))
    /\ previous_day_close = call.close
    /\ ~REq(equity, initial_capital)

(* C27, as claimed: under Monthly (Quarterly) the tracker is updated on    *)
(* every call regardless of outcome: after each call it is the month       *)
(* (quarter index) of that call's date.                                    *)
C27_TrackerFollowsEveryCall ==
    ticks >= 1 =>
        /\ params.rebalance_frequency = "Monthly"
              => previous_month = Month(call.date)
        /\ params.rebalance_frequency = "Quarterly"
              => previous_quarter = ClaimQuarterIndex(call.date)

(* C27, amended: under Monthly (Quarterly) the tracker is updated on every *)
(* call that leaves the account live, whether or not the call rebalanced:  *)
(* after it the tracker is the month (quarter index) of the call's date.   *)
(* A liquidating call and a call on a liquidated account leave the tracker *)
(* as it was.                                                              *)
C27_TrackerFollowsEveryLiveCall ==
    /\ (ticks >= 1 /\ ~liquidated) =>
          /\ params.rebalance_frequency = "Monthly"
                => previous_month = Month(call.date)
          /\ params.rebalance_frequency = "Quarterly"
                => previous_quarter = ClaimQuarterIndex(call.date)
    /\ [][Called =>
            /\ (~liquidated' /\ params.rebalance_frequency = "Monthly")
                  => previous_month' = Month(call'.date)
            /\ (~liquidated' /\ params.rebalance_frequency = "Quarterly")
                  => previous_quarter' = ClaimQuarterIndex(call'.date)
            /\ liquidated'
                  => /\ previous_month' = previous_month
                     /\ previous_quarter' = previous_quarter]_vars

(* under Monthly, a live account after a second call in the month of the   *)
(* first: the call did not rebalance and the tracker holds its month       *)
C27_Witness ==
    /\ params.rebalance_frequency = "Monthly"
    /\ ticks = 2
    /\ ~liquidated
    /\ ~rebalanced
    /\ call.date = 20200120
    /\ previous_month = 1

(* a day of a Daily run that does not liquidate and starts from units at   *)
(* the sizing target for the equity, the previous close and the max drop   *)
ClaimDailyDayFromTarget ==
    /\ params.rebalance_frequency = "Daily"
    /\ Called
    /\ ~liquidated'
    /\ REq(units, calculate_target_units(equity, previous_day_close,
                                         params.max_drop_percent))

(* C28, as claimed: with Daily rebalancing, from units at the sizing       *)
(* target, a day that does not liquidate and on which equity ends higher   *)
(* ends with strictly more units, and a day on which equity ends lower     *)
(* ends with strictly fewer units.                                         *)
C28_UnitsFollowEquity ==
    [][ClaimDailyDayFromTarget =>
          /\ RLt(equity, equity') => RLt(units, units')
          /\ RLt(equity', equity) => RLt(units', units)]_vars

(* C28, amended: with Daily rebalancing, from units at the sizing target,  *)
(* a day that does not liquidate and on which equity grows by a larger     *)
(* factor than the price (equity_after / equity_before > close /           *)
(* previous_close) ends with strictly more units, and a day on which       *)
(* equity ends lower ends with strictly fewer units.                       *)
C28_UnitsFollowEquityPerPrice ==
    [][ClaimDailyDayFromTarget =>
          /\ RLt(RMul(equity, call'.close), RMul(equity', previous_day_close))
                => RLt(units, units')
          /\ RLt(equity', equity) => RLt(units', units)]_vars

(* a Daily run from the sizing target: a 10% gain on the first day bought  *)
(* units, and the flat days after it, which cost equity, sold some         *)
C28_Witness ==
    /\ params.rebalance_frequency = "Daily"
    /\ REq(initial_units, calculate_target_units(RInt(10000), RInt(1000),
                                                 params.max_drop_percent))
    /\ ticks = 2
    /\ ~liquidated
    /\ REq(historical_data[1].Close, RInt(1100))
    /\ REq(historical_data[2].Close, RInt(1100))
    /\ RLt(initial_units, unit_values[1])
    /\ RLt(unit_values[2], unit_values[1])
    /\ RLt(equity_values[2], equity_values[1])

(* C29: every output row's trigger level is close * units held after that *)
(* day's tick * 0.05 * 0.50, from the day's close and not from the low of  *)
(* the liquidation decision; so on a liquidation row with units > 0 and    *)
(* low < close the reported equity, low * units * 0.05 * 0.50, is strictly *)
(* below the reported trigger level.                                       *)
C29_RowTriggerFromClose ==
    pc \in {"loop", "break", "done"} =>
        \A i \in 1..Len(results_df) :
            /\ REq(results_df[i].Liquidation_Trigger_Level,
                   RMul(RMul(RMul(historical_data[i].Close, results_df[i].Units_Held),
                             Rat(5, 100)), Rat(50, 100)))
            /\ (/\ liquidated /\ liquidation_date = results_df[i].date
                /\ RLt(RZero, results_df[i].Units_Held)
                /\ RLt(historical_data[i].Low, historical_data[i].Close))
               => /\ REq(results_df[i].Leveraged_Equity,
                         RMul(RMul(RMul(historical_data[i].Low,
                                        results_df[i].Units_Held),
                                   Rat(5, 100)), Rat(50, 100)))
                  /\ RLt(results_df[i].Leveraged_Equity,
                         results_df[i].Liquidation_Trigger_Level)

(* a run whose second row is a liquidation row with a low below the close, *)
(* after a first day that rebalanced                                       *)
C29_Witness ==
    /\ pc = "break"
    /\ liquidated
    /\ Len(results_df) = 2
    /\ liquidation_date = results_df[2].date
    /\ RLt(historical_data[2].Low, historical_data[2].Close)
    /\ RLt(RZero, results_df[2].Units_Held)
    /\ ~REq(results_df[1].Units_Held, initial_units)

(* C30: the legacy account of streamlit_app.py (margin_req 0.05,           *)
(* margin_closeout 0.50) and the domain account, from the same initial     *)
(* state and fed the same days, cost rate, frequency and max drop, hold    *)
(* the same equity, units, cumulative_cost, liquidated, liquidation_date,  *)
(* previous_day_close and month and quarter trackers after every call.     *)
C30_LegacyAccountEquivalent ==
    \A legacy \in legacy_account :
        /\ REq(legacy.equity, equity)
        /\ REq(legacy.units, units)
        /\ REq(legacy.initial_capital, initial_capital)
        /\ REq(legacy.cumulative_cost, cumulative_cost)
        /\ legacy.liquidated = liquidated
        /\ legacy.liquidation_date = liquidation_date
        /\ REq(legacy.previous_day_close, previous_day_close)
        /\ legacy.previous_month = previous_month
        /\ legacy.previous_quarter = previous_quarter

(* both accounts after three Monthly days, the second of which began a new *)
(* month and rebalanced, the third of which liquidated them                *)
C30_Witness ==
    /\ legacy_account # {}
    /\ params.rebalance_frequency = "Monthly"
    /\ ticks = 3
    /\ liquidated
    /\ liquidation_date = call.date
    /\ ~REq(units, initial_units)
    /\ \A legacy \in legacy_account : legacy.liquidated /\ legacy.previous_month = 2

(* the account a run reaches when the given calls are made on it alone, in *)
(* their order                                                             *)
RECURSIVE ClaimRunAlone(_, _, _)
ClaimRunAlone(run, account, calls) ==
    IF calls = <<>> THEN account
    ELSE ClaimRunAlone(run,
                       apply_daily_tick(account, Head(calls).date, Head(calls).low,
                                        Head(calls).close, run.daily_coc,
                                        run.rebalance_frequency,
                                        run.max_drop_percent).self,
                       Tail(calls))

(* C25: runs do not interfere: whatever the interleaving of the calls on   *)
(* two account instances, each account is in the state it reaches when its *)
(* own calls run alone in the same order.                                  *)
C25_RunsDoNotInterfere ==
    \A i \in 1..Len(runs) :
        runs[i].account =
            ClaimRunAlone(runs[i],
                          [LeveragedAccount(runs[i].capital, runs[i].initial_units)
                              EXCEPT !.previous_day_close = runs[i].entry_price],
                          runs[i].calls)

(* two runs of different frequency, each two days in and live, that were   *)
(* handed different days and hold different trackers and closes            *)
C25_Witness ==
    /\ Len(runs) = 2
    /\ Len(runs[1].calls) = 2
    /\ Len(runs[2].calls) = 2
    /\ runs[1].rebalance_frequency = "Monthly"
    /\ runs[2].rebalance_frequency = "Daily"
    /\ ~runs[1].account.liquidated
    /\ ~runs[2].account.liquidated
    /\ runs[1].account.previous_month = 4
    /\ runs[2].calls[2].date = 20200203
    /\ ~REq(runs[1].account.units, runs[2].account.units)

====
